---- MODULE Spec2Model ----
(***************************************************************************)
(* Azure -> NetBox synchronisation (fboukezzoula/helloworld).              *)
(*                                                                         *)
(* Twelve specifications share this module:                                *)
(*   SpecTrunc  - truncate_name applied to a name and a maximum length;    *)
(*   SpecFilter - discovery of the virtual networks of one subscription    *)
(*                followed by the two filter implementations               *)
(*                (apply_filters of config/azure-sync.py and               *)
(*                should_process_resource of azure_netbox_with_config.py); *)
(*   SpecSync   - sync_to_netbox of config/azure-sync.py run against an    *)
(*                inventory (the NetBox tables), twice in a row;           *)
(*   SpecSyncLive - the same runs, every step that can be taken being      *)
(*                taken in the end;                                        *)
(*   SpecUpsert - one prefix upsert on an inventory that may hold several  *)
(*                records of the prefix: get_or_create_prefix of           *)
(*                config/azure-sync.py, or one CSV row of ips/netbox.py;   *)
(*   SpecUpsertFault - get_or_create_prefix with one of its requests       *)
(*                failing;                                                 *)
(*   SpecRetry  - the device create of sync_to_netbox and its retry under  *)
(*                suffixed names, one request per step;                    *)
(*   SpecFault  - sync_to_netbox with one request to the inventory         *)
(*                failing;                                                 *)
(*   SpecEnv    - the environment token sync_to_netbox reads off a         *)
(*                subscription name;                                       *)
(*   SpecMain   - main of the three scripts: validation of the NetBox URL  *)
(*                and token, enumeration of the subscriptions, set-up of   *)
(*                the custom fields and the run of sync_to_netbox;         *)
(*   SpecStartup - main of the two synchronisation scripts from the load   *)
(*                of the configuration file and the choice of the          *)
(*                subscriptions on;                                        *)
(*   SpecTree   - extract_subscriptions walking the tree of a management   *)
(*                group.                                                   *)
(*                                                                         *)
(* Strings that the code inspects character by character (names, regular   *)
(* expressions) are sequences of one-character strings.  Regular           *)
(* expressions are restricted to literal patterns: re.match is a prefix    *)
(* test and re.search a substring test.                                    *)
(***************************************************************************)
EXTENDS Integers, Sequences, FiniteSets, TLC

VARIABLES
    \* ---- truncate_name ----
    tpc,              \* "input" | "truncated"
    tn_name,          \* the name argument
    tn_max,           \* the max_length argument
    tn_result,        \* the name returned by truncate_name of config/azure-sync.py
    tn_result_cfg,    \* the name returned by truncate_name of azure_netbox_with_config.py
    \* ---- filter pipeline ----
    fpc,              \* "discovered" | "listed" | "filtered" | "refiltered"
    discovered,       \* what the cloud API returns for the subscription
    config,           \* config['filters']
    vnets_data,       \* the list built by get_vnets_and_subnets (azure-sync.py)
    filtered_vnets,   \* result of apply_filters(vnets_data, config)
    refiltered_vnets, \* result of a second apply_filters on the same list
    cfg_vnet_data,    \* result of get_vnets_and_subnets (azure_netbox_with_config.py)
    \* ---- sync_to_netbox (config/azure-sync.py) ----
    sync_config,      \* config['mapping']['max_name_length'], config['tags']['additional_tags']
    fault,            \* the request to the inventory that fails, and with what
    pc,               \* position of the run in sync_to_netbox
    run,              \* number of the current run of sync_to_netbox (1, 2, ...)
    all_network_data, \* the argument: one entry per subscription
    nb,               \* the inventory: the NetBox tables behind the pynetbox api
    idx,              \* loop positions: subscription, vnet, address space, subnet, device
    locals,           \* local variables of sync_to_netbox
    log,              \* requests sent to the inventory in the current run, in order
    \* ---- one prefix upsert on its own (nb and log are its inventory and requests) ----
    upc,              \* "ready" | "returned" | "row_done"
    nb_before,        \* the inventory before the operation
    up_call,          \* the arguments of get_or_create_prefix
    up_result,        \* what get_or_create_prefix returned: ret, raised, created
    csv_call,         \* a CSV row and the options of update_list_available_ips
    csv_counters,     \* updated, skipped, multi, missing
    \* ---- the device create of lines 615-650 on its own, one request per step ----
    \* (nb and log are its inventory and requests, sync_config its configuration)
    rpc,              \* "create" | "retry" | "created" | "raised"
    r_fields,         \* the fields of the device to create; name is device_name
    r_suffix,         \* the local variable suffix; 0 before the loop
    r_fault,          \* the create request NetBox answers with another error; 0 for none
    \* ---- the environment token of a subscription name (lines 505-515) ----
    epc,              \* "input" | "classified"
    e_name,           \* subscription_name
    e_slug,           \* env_slug after the if/elif chain; <<>> for None
    \* ---- main (nb, log, all_network_data and pc as in sync_to_netbox) ----
    mpc,              \* position in main
    m_config,         \* the script, its configuration file and environment; after
                      \* the load the configuration in effect
    m_plan,           \* what the cloud holds and which enumeration call fails
    subscriptions,    \* the subscriptions to process and the setting that chose them
    m_i,              \* position of the loop over the subscriptions
    azure,            \* the calls sent to the cloud API, in order
    warnings,         \* what main logged at level WARNING, in order
    exit_code,        \* the exit status of the process; None while it runs
    \* ---- extract_subscriptions of get_management_group_subscriptions ----
    gpc,              \* "call" | "walk" | "returned"
    mg_details,       \* the tree of the management group, as the cloud returned it
    mg_stack,         \* the calls of extract_subscriptions in progress: node and loop position
    mg_subscriptions  \* the list named subscriptions of get_management_group_subscriptions

truncVars  == <<tpc, tn_name, tn_max, tn_result, tn_result_cfg>>
filterVars == <<fpc, discovered, config, vnets_data, filtered_vnets,
                refiltered_vnets, cfg_vnet_data>>
syncVars   == <<sync_config, fault, pc, run, all_network_data, nb, idx, locals, log>>
upsertVars == <<upc, nb_before, up_call, up_result, csv_call, csv_counters>>
retryVars  == <<rpc, r_fields, r_suffix, r_fault>>
envVars    == <<epc, e_name, e_slug>>
mainVars   == <<mpc, m_config, m_plan, subscriptions, m_i, azure, warnings, exit_code>>
treeVars   == <<gpc, mg_details, mg_stack, mg_subscriptions>>
vars == <<truncVars, filterVars, syncVars, upsertVars, retryVars, envVars, mainVars,
          treeVars>>

None == "None"

(***************************************************************************)
(* Generic sequence helpers                                                *)
(***************************************************************************)
Range(s) == {s[i] : i \in DOMAIN s}

SeqsUpTo(S, n) == UNION {[1..k -> S] : k \in 0..n}

Take(s, n) == SubSeq(s, 1, IF n < Len(s) THEN n ELSE Len(s))

IsPrefixOf(p, s) == Len(p) <= Len(s) /\ SubSeq(s, 1, Len(p)) = p

OccursIn(p, s) ==
    \E i \in 0..(Len(s) - Len(p)) : SubSeq(s, i + 1, i + Len(p)) = p

(***************************************************************************)
(* truncate_name(name, max_length)                                         *)
(***************************************************************************)
MaxNameLen == 4                       \* longest name drawn as input
MaxMaxLength == 4                     \* largest max_name_length drawn
NameChars == {"a", "b", "."}

\* name.split('.')[0]: the part before the first '.', the whole name if none
SplitDotFirst(name) ==
    IF \E i \in DOMAIN name : name[i] = "."
    THEN LET first == CHOOSE i \in DOMAIN name :
                          name[i] = "." /\ \A j \in 1..(i - 1) : name[j] # "."
         IN SubSeq(name, 1, first - 1)
    ELSE name

\* name[:max_length] when len(name) > max_length
CutToLength(name, max_length) ==
    IF Len(name) > max_length THEN SubSeq(name, 1, max_length) ELSE name

\* mutant: the length rule is forgotten
truncate_name_NoCut(name, max_length) == SplitDotFirst(name)

truncate_name(name, max_length) == CutToLength(SplitDotFirst(name), max_length)

\* truncate_name(name, config) of azure_netbox_with_config.py: the maximum is
\* read from config.get_mapping_config()['max_name_length']
truncate_name_cfg(name, mapping) ==
    LET max_length == mapping.max_name_length
        stem == IF \E i \in DOMAIN name : name[i] = "."
                THEN SplitDotFirst(name) ELSE name
    IN IF Len(stem) > max_length THEN SubSeq(stem, 1, max_length) ELSE stem

TruncInit ==
    /\ tpc = "input"
    /\ tn_name \in SeqsUpTo(NameChars, MaxNameLen)
    /\ tn_max \in 0..MaxMaxLength
    /\ tn_result = None
    /\ tn_result_cfg = None

TruncateName ==
    /\ tpc = "input"
    /\ tn_result' = truncate_name(tn_name, tn_max)
    /\ tn_result_cfg' = truncate_name_cfg(tn_name, [max_name_length |-> tn_max])
    /\ tpc' = "truncated"
    /\ UNCHANGED <<tn_name, tn_max>>

(***************************************************************************)
(* Filter pipeline                                                         *)
(***************************************************************************)
MaxSubnets == 2                       \* subnets per discovered network
Regions == {"westeurope", "northeurope"}
ResourceGroups == {"rg-net", "rg-app"}
VnetNames == {<<"a">>, <<"b", "a">>, <<"b">>}
SubnetNames == {<<"a">>, <<"b", "a">>}
RegionSets == SUBSET Regions
ResourceGroupSets == SUBSET {"rg-net"}
PatternSets == SUBSET {<<"a">>}

\* a network as the cloud API lists it; ids are unique per resource
DiscoveredVnets ==
    {[id |-> "vnet-1", name |-> n, resource_group |-> rg, location |-> loc,
      subnets |-> [j \in DOMAIN sn |-> [id |-> j, name |-> sn[j]]]] :
        n \in VnetNames, rg \in ResourceGroups, loc \in Regions,
        sn \in SeqsUpTo(SubnetNames, MaxSubnets)}
FilterConfigs ==
    [regions : [include : RegionSets, exclude : RegionSets],
     resource_groups : [include : ResourceGroupSets, exclude : ResourceGroupSets],
     resource_names : [include_patterns : PatternSets, exclude_patterns : PatternSets]]

\* p.match(name) for a compiled literal pattern: the pattern matches at position 0
PatternMatch(p, name) == IsPrefixOf(p, name)
\* re.search(pattern, name) for a literal pattern: the pattern occurs anywhere
PatternSearch(p, name) == OccursIn(p, name)

\* ---- apply_filters (config/azure-sync.py) ----
\* mutant: the region exclude set is not consulted
RegionPasses_IncludeOnly(cfg, vnet) ==
    ~(cfg.regions.include # {} /\ vnet.location \notin cfg.regions.include)

RegionPasses(cfg, vnet) ==
    /\ ~(cfg.regions.include # {} /\ vnet.location \notin cfg.regions.include)
    /\ ~(vnet.location \in cfg.regions.exclude)

\* mutant: an empty include set rejects every resource group
ResourceGroupPasses_EmptyIncludeRejects(cfg, vnet) ==
    /\ vnet.resource_group \in cfg.resource_groups.include
    /\ ~(vnet.resource_group \in cfg.resource_groups.exclude)

ResourceGroupPasses(cfg, vnet) ==
    /\ ~(cfg.resource_groups.include # {}
         /\ vnet.resource_group \notin cfg.resource_groups.include)
    /\ ~(vnet.resource_group \in cfg.resource_groups.exclude)

\* mutant: an include match is accepted before the exclude patterns are tried
NamePasses_IncludeWins(cfg, name) ==
    \/ \E p \in cfg.resource_names.include_patterns : PatternMatch(p, name)
    \/ /\ cfg.resource_names.include_patterns = {}
       /\ ~(\E p \in cfg.resource_names.exclude_patterns : PatternMatch(p, name))

NamePasses(cfg, name) ==
    /\ ~(cfg.resource_names.include_patterns # {}
         /\ ~\E p \in cfg.resource_names.include_patterns : PatternMatch(p, name))
    /\ ~(\E p \in cfg.resource_names.exclude_patterns : PatternMatch(p, name))

FilterSubnets(cfg, subnets) ==
    SelectSeq(subnets, LAMBDA subnet : NamePasses(cfg, subnet.name))

\* the network reaches "filtered_vnets.append(vnet)"
VnetKept(cfg, vnet) ==
    /\ RegionPasses(cfg, vnet)
    /\ ResourceGroupPasses(cfg, vnet)
    /\ NamePasses(cfg, vnet.name)
    /\ FilterSubnets(cfg, vnet.subnets) # <<>>

\* the dict of a kept network after "vnet['subnets'] = filtered_subnets"
WithFilteredSubnets(cfg, vnet) ==
    [vnet EXCEPT !.subnets = FilterSubnets(cfg, vnet.subnets)]

\* the loop "for vnet in vnets_data" from position i on: the appended dicts
RECURSIVE FilterLoop(_, _, _)
FilterLoop(data, cfg, i) ==
    IF i > Len(data) THEN <<>>
    ELSE (IF VnetKept(cfg, data[i])
          THEN <<WithFilteredSubnets(cfg, data[i])>> ELSE <<>>)
         \o FilterLoop(data, cfg, i + 1)

\* apply_filters: .out is the returned list, .input the argument list after the
\* call (the returned list holds the very dicts of the argument list, so the
\* assignment to vnet['subnets'] shows in both)
apply_filters(data, cfg) ==
    [out   |-> FilterLoop(data, cfg, 1),
     input |-> [i \in DOMAIN data |->
                   IF VnetKept(cfg, data[i])
                   THEN WithFilteredSubnets(cfg, data[i]) ELSE data[i]]]

\* ---- AzureNetboxConfig.should_process_resource (azure_netbox_with_config.py) ----
should_process_resource(cfg, resource_name, resource_group, region) ==
    /\ ~(cfg.regions.include # {} /\ region \notin cfg.regions.include)
    /\ ~(cfg.regions.exclude # {} /\ region \in cfg.regions.exclude)
    /\ ~(cfg.resource_groups.include # {}
         /\ resource_group \notin cfg.resource_groups.include)
    /\ ~(cfg.resource_groups.exclude # {}
         /\ resource_group \in cfg.resource_groups.exclude)
    /\ ~(cfg.resource_names.include_patterns # {}
         /\ ~\E p \in cfg.resource_names.include_patterns :
                PatternSearch(p, resource_name))
    /\ ~(cfg.resource_names.exclude_patterns # {}
         /\ \E p \in cfg.resource_names.exclude_patterns :
                PatternSearch(p, resource_name))

\* get_vnets_and_subnets(subscription_id, credential, config) of
\* azure_netbox_with_config.py: networks are filtered while they are listed,
\* every subnet of a listed network is appended
get_vnets_and_subnets_cfg(cloud, cfg) ==
    SelectSeq(cloud, LAMBDA vnet :
        should_process_resource(cfg, vnet.name, vnet.resource_group, vnet.location))

\* get_vnets_and_subnets(subscription_id, credential) of config/azure-sync.py:
\* one dict per network, one per subnet, nothing left out
get_vnets_and_subnets(cloud) ==
    [i \in DOMAIN cloud |->
        [id |-> cloud[i].id, name |-> cloud[i].name,
         resource_group |-> cloud[i].resource_group,
         location |-> cloud[i].location,
         subnets |-> [j \in DOMAIN cloud[i].subnets |->
                         [id |-> cloud[i].subnets[j].id,
                          name |-> cloud[i].subnets[j].name]]]]

FilterInit ==
    /\ fpc = "discovered"
    /\ discovered \in {<<>>} \cup {<<vnet>> : vnet \in DiscoveredVnets}
    /\ config \in FilterConfigs
    /\ vnets_data = <<>>
    /\ filtered_vnets = <<>>
    /\ refiltered_vnets = <<>>
    /\ cfg_vnet_data = None

\* main, azure-sync.py line 749
ListVnets ==
    /\ fpc = "discovered"
    /\ vnets_data' = get_vnets_and_subnets(discovered)
    /\ fpc' = "listed"
    /\ UNCHANGED <<discovered, config, filtered_vnets, refiltered_vnets, cfg_vnet_data>>

\* main, azure-sync.py line 750
ApplyFilters ==
    /\ fpc = "listed"
    /\ filtered_vnets' = apply_filters(vnets_data, config).out
    /\ vnets_data' = apply_filters(vnets_data, config).input
    /\ fpc' = "filtered"
    /\ UNCHANGED <<discovered, config, refiltered_vnets, cfg_vnet_data>>

\* a second call of apply_filters with the same list object and configuration
ApplyFiltersAgain ==
    /\ fpc = "filtered"
    /\ refiltered_vnets' = apply_filters(vnets_data, config).out
    /\ vnets_data' = apply_filters(vnets_data, config).input
    /\ fpc' = "refiltered"
    /\ UNCHANGED <<discovered, config, filtered_vnets, cfg_vnet_data>>

\* main, azure_netbox_with_config.py line 465
ListVnetsCfg ==
    /\ cfg_vnet_data = None
    /\ cfg_vnet_data' = get_vnets_and_subnets_cfg(discovered, config)
    /\ UNCHANGED <<fpc, discovered, config, vnets_data, filtered_vnets, refiltered_vnets>>

(***************************************************************************)
(* String conversions used by sync_to_netbox                               *)
(***************************************************************************)
\* str.lower() on one character, for the capitals that occur in the inputs
LowerChar(c) ==
    CASE c = "A" -> "a" [] c = "D" -> "d" [] c = "E" -> "e" [] c = "H" -> "h"
      [] c = "L" -> "l" [] c = "M" -> "m" [] c = "N" -> "n" [] c = "P" -> "p"
      [] c = "R" -> "r" [] c = "S" -> "s" [] c = "T" -> "t" [] c = "U" -> "u"
      [] c = "V" -> "v" [] c = "W" -> "w" [] OTHER -> c

lower(s) == [i \in DOMAIN s |-> LowerChar(s[i])]

\* str.upper() on one character, for the letters that start or form a slug
UpperChar(c) ==
    CASE c = "a" -> "A" [] c = "d" -> "D" [] c = "e" -> "E" [] c = "h" -> "H"
      [] c = "l" -> "L" [] c = "m" -> "M" [] c = "n" -> "N" [] c = "p" -> "P"
      [] c = "r" -> "R" [] c = "t" -> "T" [] c = "u" -> "U" [] c = "v" -> "V"
      [] c = "w" -> "W" [] OTHER -> c

upper(s) == [i \in DOMAIN s |-> UpperChar(s[i])]

\* str.capitalize(): first character upper case, the rest lower case
capitalize(s) ==
    [i \in DOMAIN s |-> IF i = 1 THEN UpperChar(s[i]) ELSE LowerChar(s[i])]

\* s[:n] of Python, n possibly negative
SliceTo(s, n) ==
    IF n >= 0 THEN Take(s, n)
    ELSE Take(s, IF Len(s) + n > 0 THEN Len(s) + n ELSE 0)

\* str.replace(old, new) for a one-character old and a string new
RECURSIVE replace(_, _, _)
replace(s, old, new) ==
    IF s = <<>> THEN <<>>
    ELSE (IF Head(s) = old THEN new ELSE <<Head(s)>>) \o replace(Tail(s), old, new)

\* str(n) for n >= 0: the decimal digits
Digit(d) == CASE d = 0 -> "0" [] d = 1 -> "1" [] d = 2 -> "2" [] d = 3 -> "3"
              [] d = 4 -> "4" [] d = 5 -> "5" [] d = 6 -> "6" [] d = 7 -> "7"
              [] d = 8 -> "8" [] OTHER -> "9"
RECURSIVE str(_)
str(n) == IF n < 10 THEN <<Digit(n)>> ELSE str(n \div 10) \o <<Digit(n % 10)>>

\* 'vm'.title() and 'network_interface'.title()
title(type) == IF type = "vm" THEN "Vm" ELSE "Network_Interface"

(***************************************************************************)
(* Address blocks: the first len bits of an address, as a number           *)
(***************************************************************************)
RECURSIVE Pow2(_)
Pow2(n) == IF n = 0 THEN 1 ELSE 2 * Pow2(n - 1)

Encloses(outer, inner) ==
    /\ outer.len <= inner.len
    /\ inner.bits \div Pow2(inner.len - outer.len) = outer.bits

Net10_0 == [bits |-> 0, len |-> 1]          \* an address space
Net10_1 == [bits |-> 1, len |-> 1]          \* a second, disjoint address space
Sub10_0_1 == [bits |-> 0, len |-> 2]        \* a subnet inside Net10_0
Sub10_1_1 == [bits |-> 2, len |-> 2]        \* a subnet inside Net10_1

(***************************************************************************)
(* Configuration of the run: config['mapping'] and config['tags']          *)
(***************************************************************************)
mapping ==
    [site_prefix |-> <<"A", "z", "-">>, device_type_prefix |-> "Azure",
     device_role_prefix |-> "Azure", manufacturer |-> "Microsoft Azure",
     default_interface |-> "eth0",
     max_name_length |-> sync_config.max_name_length]

tags_config ==
    [sync_tag |-> [name |-> <<"A", "z", " ", "S">>, description |-> "Synced from Azure"],
     additional_tags |-> sync_config.additional_tags]

(***************************************************************************)
(* The inventory behind the pynetbox api object.  A session is the         *)
(* inventory together with the requests sent so far in the run; every      *)
(* request takes a session and returns the session after it and the value  *)
(* handed back to the caller (ret).                                        *)
(***************************************************************************)
NoId == 0                             \* None in a field that holds a record id

\* the custom fields of prefixes, as a run of setup_custom_fields with both
\* fields enabled (the default) leaves them
CustomField(id, name, type) ==
    [id |-> id, name |-> name, type |-> type, description |-> name,
     object_types |-> <<"ipam.prefix">>]
CustomFieldsSetUp ==
    << CustomField(1, "azure_subscription", "text"),
       CustomField(2, "azure_subscription_url", "url") >>

\* NetBox refuses custom field data under a name that is not a custom field
\* of the object type
PrefixFields == {"azure_subscription", "azure_subscription_url"}
UnknownFieldData(ses, table, rec) ==
    /\ table = "prefixes"
    /\ \E k \in PrefixFields :
          /\ rec.custom_fields[k] # <<>>
          /\ \A i \in DOMAIN ses.nb.custom_fields : ses.nb.custom_fields[i].name # k

\* the tables without records
EmptyInventory ==
    [tags |-> <<>>, prefixes |-> <<>>, manufacturers |-> <<>>,
     device_types |-> <<>>, device_roles |-> <<>>, sites |-> <<>>,
     devices |-> <<>>, interfaces |-> <<>>, ip_addresses |-> <<>>,
     custom_fields |-> CustomFieldsSetUp]

Ev(op, table, key) == [op |-> op, table |-> table, key |-> key]

Logged(ses, ev) == [ses EXCEPT !.log = Append(@, ev)]

\* what a call hands back: ret is <<>> for None and <<record>> for a record;
\* raised tells that the call raised instead of returning, and error what it
\* raised
Returned(ses, ret) == [ses |-> ses, ret |-> ret, raised |-> FALSE, error |-> "none"]
Raise(ses, error) == [ses |-> ses, ret |-> <<>>, raised |-> TRUE, error |-> error]

\* pynetbox.RequestError (an HTTP error answer), with the messages the code
\* looks for; ValueError and ConnectionError are not of that class
RequestErrors == {"RequestError", "Device name must be unique per site", "Duplicate prefix found"}

\* the request that fails is the one that would be entry fault.at of the
\* session's log; fault.kind is what it raises: "RequestError" or
\* "ConnectionError"
NoFault == [at |-> 0, kind |-> "none"]
Faulted(ses) == ses.fault.at = Len(ses.log) + 1
Fail(ses, request, table, key) ==
    Raise(Logged(ses, [op |-> "failed", table |-> table, key |-> key,
                       request |-> request]),
          ses.fault.kind)

\* endpoint.get(**filters): None for no match, the record for one match, an
\* exception (ValueError) for several
Get(ses, table, key, Match(_)) ==
    LET hits == SelectSeq(ses.nb[table], Match)
        after == Logged(ses, Ev("get", table, key))
    IN IF Faulted(ses) THEN Fail(ses, "get", table, key)
       ELSE IF Len(hits) > 1 THEN Raise(after, "ValueError") ELSE Returned(after, hits)

\* endpoint.filter(**filters): the matching records in id order
Filter(ses, table, key, Match(_)) ==
    IF Faulted(ses) THEN Fail(ses, "filter", table, key)
    ELSE Returned(Logged(ses, Ev("filter", table, key)), SelectSeq(ses.nb[table], Match))

\* endpoint.create(**fields): the new record, with the next id of its table
Create(ses, table, key, fields) ==
    LET id  == Len(ses.nb[table]) + 1
        rec == [k \in DOMAIN fields \cup {"id"} |->
                   IF k = "id" THEN id ELSE fields[k]]
    IN IF Faulted(ses) THEN Fail(ses, "create", table, key)
       ELSE IF UnknownFieldData(ses, table, rec)
       THEN Raise(Logged(ses, Ev("create_refused", table, key)), "RequestError")
       ELSE Returned([ses EXCEPT !.nb[table] = Append(@, rec),
                                 !.log = Append(@, Ev("create", table, key))],
                     <<rec>>)

\* record.save(): the stored record takes the fields of the local one
Save(ses, table, key, rec) ==
    IF Faulted(ses) THEN Fail(ses, "save", table, key)
    ELSE IF UnknownFieldData(ses, table, rec)
    THEN Raise(Logged(ses, Ev("save_refused", table, key)), "RequestError")
    ELSE Returned([ses EXCEPT !.nb[table][rec.id] = rec,
                              !.log = Append(@, Ev("save", table, key))],
                  <<rec>>)

\* dcim.devices.create: NetBox refuses a second device of the same name in
\* the same site ("Device name must be unique per site")
DevicesCreate(ses, fields) ==
    IF Faulted(ses) THEN Fail(ses, "create", "devices", fields.name)
    ELSE IF \E i \in DOMAIN ses.nb.devices :
               /\ ses.nb.devices[i].name = fields.name
               /\ ses.nb.devices[i].site = fields.site
    THEN Raise(Logged(ses, Ev("create_refused", "devices", fields.name)),
               "Device name must be unique per site")
    ELSE Create(ses, "devices", fields.name, fields)

(***************************************************************************)
(* The lookup-or-create helpers                                            *)
(***************************************************************************)
\* get_or_create_tag: any exception of the lookup is swallowed
get_or_create_tag(ses, tag_name, tag_slug, tag_description) ==
    LET got == Get(ses, "tags", tag_slug, LAMBDA t : t.slug = tag_slug) IN
    IF ~got.raised /\ got.ret # <<>> THEN got
    ELSE Create(got.ses, "tags", tag_slug,
                [name |-> tag_name, slug |-> tag_slug,
                 description |-> tag_description])

\* the custom field values written on a prefix
AzureSubscriptionValue(subscription_name, subscription_id) ==
    <<subscription_name, " - ", subscription_id>>
AzureSubscriptionUrl(subscription_id) ==
    <<"https://portal.azure.com/#@/subscription/", subscription_id, "/overview">>

\* an update that looks at the defaults only and saves nothing when the
\* custom fields alone differ
UpdateExistingPrefix_IgnoresCustomFields(ses, prefix, prefix_value, defaults, subscription_name, subscription_id) ==
    LET differs == \E k \in DOMAIN defaults : prefix[k] # defaults[k]
        p1 == [k \in DOMAIN prefix |->
                  IF k \in DOMAIN defaults THEN defaults[k] ELSE prefix[k]]
        saved == IF differs THEN Save(ses, "prefixes", prefix_value, p1)
                 ELSE Returned(ses, <<p1>>)
    IN [ses |-> saved.ses, ret |-> saved.ret, raised |-> saved.raised,
        created |-> FALSE]

\* lines 316-340: the first existing record is brought to the defaults
UpdateExistingPrefix(ses, prefix, prefix_value, defaults, subscription_name, subscription_id) ==
    LET differs == \E k \in DOMAIN defaults : prefix[k] # defaults[k]
        p1 == [k \in DOMAIN prefix |->
                  IF k \in DOMAIN defaults THEN defaults[k] ELSE prefix[k]]
        value == AzureSubscriptionValue(subscription_name, subscription_id)
        url == AzureSubscriptionUrl(subscription_id)
        cf_differs ==
            /\ subscription_name # <<>> /\ subscription_id # ""
            /\ \/ p1.custom_fields.azure_subscription # value
               \/ p1.custom_fields.azure_subscription_url # url
        p2 == IF cf_differs
              THEN [p1 EXCEPT !.custom_fields =
                       [k \in DOMAIN p1.custom_fields |->
                           IF k = "azure_subscription" THEN value
                           ELSE IF k = "azure_subscription_url" THEN url
                           ELSE p1.custom_fields[k]]]
              ELSE p1
        needs_update == differs \/ cf_differs
        saved == IF needs_update THEN Save(ses, "prefixes", prefix_value, p2)
                 ELSE Returned(ses, <<p2>>)
    IN [ses |-> saved.ses, ret |-> saved.ret, raised |-> saved.raised,
        created |-> FALSE]

\* what happens around the call besides its own requests: racing is <<>> or
\* <<fields>>, the record another writer creates between the lookup and the
\* create; enforce_unique tells whether NetBox refuses a second record of a
\* prefix ("Duplicate prefix found")
SingleWriter == [racing |-> <<>>, enforce_unique |-> TRUE]

RacingWrite(ses, env) ==
    IF env.racing = <<>> THEN ses
    ELSE LET id == Len(ses.nb.prefixes) + 1
             rec == [k \in DOMAIN env.racing[1] \cup {"id"} |->
                        IF k = "id" THEN id ELSE env.racing[1][k]]
         IN [ses EXCEPT !.nb.prefixes = Append(@, rec)]

\* ipam.prefixes.create
PrefixesCreate(ses, prefix_value, fields, env) ==
    IF Faulted(ses) THEN Fail(ses, "create", "prefixes", prefix_value)
    ELSE IF /\ env.enforce_unique
            /\ \E i \in DOMAIN ses.nb.prefixes : ses.nb.prefixes[i].prefix = prefix_value
    THEN Raise(Logged(ses, Ev("create_refused", "prefixes", prefix_value)),
               "Duplicate prefix found")
    ELSE Create(ses, "prefixes", prefix_value, fields)

\* a refused create that is not recovered
RequeryPrefix_Raises(ses, prefix_value) ==
    [ses |-> ses, ret |-> <<>>, raised |-> TRUE, created |-> FALSE]

\* lines 357-368: after a refused create the prefix is looked up again; the
\* record found is returned as it is, and the error is raised when none is
RequeryPrefix(ses, prefix_value) ==
    LET again == Filter(ses, "prefixes", prefix_value,
                        LAMBDA r : r.prefix = prefix_value)
    IN IF ~again.raised /\ again.ret # <<>>
       THEN [ses |-> again.ses, ret |-> <<again.ret[1]>>, raised |-> FALSE,
             created |-> FALSE]
       ELSE [ses |-> again.ses, ret |-> <<>>, raised |-> TRUE, created |-> FALSE]

\* lines 344-368: the record is created from the defaults
CreatePrefix(ses, prefix_value, defaults, subscription_name, subscription_id, env) ==
    LET custom_fields ==
            IF subscription_name # <<>> /\ subscription_id # ""
            THEN [azure_subscription |->
                      AzureSubscriptionValue(subscription_name, subscription_id),
                  azure_subscription_url |-> AzureSubscriptionUrl(subscription_id)]
            ELSE [azure_subscription |-> <<>>, azure_subscription_url |-> <<>>]
        made == PrefixesCreate(RacingWrite(ses, env), prefix_value,
                    [prefix |-> prefix_value,
                     description |-> defaults.description,
                     status |-> defaults.status,
                     tags |-> defaults.tags,
                     parent |-> IF "parent" \in DOMAIN defaults
                                THEN defaults.parent ELSE NoId,
                     custom_fields |-> custom_fields],
                    env)
    IN IF made.raised /\ made.error = "Duplicate prefix found"
       THEN RequeryPrefix(made.ses, prefix_value)
       ELSE [ses |-> made.ses, ret |-> made.ret, raised |-> made.raised,
             created |-> ~made.raised]

\* an upsert that creates without looking
get_or_create_prefix_CreatesWithoutLookup(ses, prefix_value, defaults, subscription_name, subscription_id, env) ==
    CreatePrefix(ses, prefix_value, defaults, subscription_name, subscription_id, env)

get_or_create_prefix(ses, prefix_value, defaults, subscription_name, subscription_id, env) ==
    LET found == Filter(ses, "prefixes", prefix_value,
                        LAMBDA r : r.prefix = prefix_value)
        updated == UpdateExistingPrefix(found.ses, found.ret[1], prefix_value, defaults,
                                        subscription_name, subscription_id)
    IN IF ~found.raised /\ found.ret # <<>> /\ ~updated.raised THEN updated
       ELSE CreatePrefix(IF found.raised \/ found.ret = <<>> THEN found.ses
                         ELSE updated.ses,
                         prefix_value, defaults, subscription_name, subscription_id, env)

\* get_or_create_device_type: only RequestError is caught, so the ValueError
\* of an ambiguous lookup and a ConnectionError leave the function
get_or_create_device_type(ses, model, manufacturer_name, tags) ==
    LET got == Get(ses, "device_types", model, LAMBDA t : t.model = model) IN
    IF got.raised /\ got.error \notin RequestErrors THEN got
    ELSE IF ~got.raised /\ got.ret # <<>> THEN got
    ELSE LET man == Get(got.ses, "manufacturers", manufacturer_name,
                        LAMBDA m : m.name = manufacturer_name)
         IN IF man.raised THEN man
            ELSE LET made == IF man.ret # <<>> THEN man
                             ELSE Create(man.ses, "manufacturers", manufacturer_name,
                                         [name |-> manufacturer_name,
                                          description |-> "Created by Azure sync script"])
                 IN IF made.raised THEN made
                    ELSE Create(made.ses, "device_types", model,
                                [model |-> model, manufacturer |-> made.ret[1].id,
                                 tags |-> tags])

get_or_create_device_role(ses, name, vm_role, tags) ==
    LET got == Get(ses, "device_roles", name, LAMBDA r : r.name = name) IN
    IF got.raised /\ got.error \notin RequestErrors THEN got
    ELSE IF ~got.raised /\ got.ret # <<>> THEN got
    ELSE Create(got.ses, "device_roles", name,
                [name |-> name, vm_role |-> vm_role, tags |-> tags])

\* a create that failed is taken for done: the record that was to be written
\* is handed back with the id it would have got
get_or_create_site_TakesFailedForDone(ses, name, description, tags) ==
    LET got == Get(ses, "sites", name, LAMBDA r : r.name = name)
        made == Create(got.ses, "sites", name,
                       [name |-> name, status |-> "active",
                        description |-> description, tags |-> tags])
    IN IF ~got.raised /\ got.ret # <<>> THEN got
       ELSE IF made.raised
       THEN Returned(made.ses, <<[id |-> Len(made.ses.nb.sites) + 1, name |-> name]>>)
       ELSE made

\* get_or_create_site: any exception of the lookup is swallowed
get_or_create_site(ses, name, description, tags) ==
    LET got == Get(ses, "sites", name, LAMBDA r : r.name = name) IN
    IF ~got.raised /\ got.ret # <<>> THEN got
    ELSE Create(got.ses, "sites", name,
                [name |-> name, status |-> "active",
                 description |-> description, tags |-> tags])

(***************************************************************************)
(* The argument of sync_to_netbox: what main builds from discovery         *)
(***************************************************************************)
MaxDevices == 2                       \* discovered devices (ip configurations) of a run
MaxRuns == 2                          \* consecutive runs of sync_to_netbox

WestEurope == <<"w", "e">>            \* stands for 'westeurope'
NorthEurope == <<"n", "e">>
SubDev == <<"D", "e", "v">>           \* subscription display names
SubPrd == <<"p", "r", "d", "-", "d">>
SubHub == <<"h", "u", "b">>

Subnet(name, prefix) ==
    [name |-> name, id |-> name, address_prefix |-> <<prefix>>, devices |-> <<>>]
SubnetNoPrefix(name) ==
    [name |-> name, id |-> name, address_prefix |-> <<>>, devices |-> <<>>]
Vnet(name, location, address_space, subnets) ==
    [name |-> name, id |-> name, location |-> location,
     address_space |-> address_space, subnets |-> subnets]
Subscription(id, name, vnets) ==
    [subscription_id |-> id, subscription_name |-> name, vnets |-> vnets]

\* the network shapes of the runs, before the devices are attached
NetworkShapes ==
    { \* one network, one address space, one subnet
      << Subscription("sub-1", SubDev,
            << Vnet("vnet-a", WestEurope, <<Net10_0>>,
                    << Subnet("snet-1", Sub10_0_1) >>) >>) >>,
      \* one network with two address spaces and a subnet in each
      << Subscription("sub-1", SubDev,
            << Vnet("vnet-a", WestEurope, <<Net10_0, Net10_1>>,
                    << Subnet("snet-1", Sub10_0_1),
                       Subnet("snet-2", Sub10_1_1) >>) >>) >>,
      \* two subscriptions with disjoint networks in two regions
      << Subscription("sub-1", SubDev,
            << Vnet("vnet-a", WestEurope, <<Net10_0>>,
                    << Subnet("snet-1", Sub10_0_1) >>) >>),
         Subscription("sub-2", SubPrd,
            << Vnet("vnet-b", NorthEurope, <<Net10_1>>,
                    << Subnet("snet-2", Sub10_1_1) >>) >>) >>,
      \* two subscriptions whose networks use the same address space
      << Subscription("sub-1", SubDev,
            << Vnet("vnet-a", WestEurope, <<Net10_0>>,
                    << Subnet("snet-1", Sub10_0_1) >>) >>),
         Subscription("sub-2", SubPrd,
            << Vnet("vnet-b", WestEurope, <<Net10_0>>,
                    << Subnet("snet-1", Sub10_0_1) >>) >>) >>,
      \* one subscription without environment token, two networks of one region
      << Subscription("sub-1", SubHub,
            << Vnet("vnet-a", WestEurope, <<Net10_0>>,
                    << Subnet("snet-1", Sub10_0_1) >>),
               Vnet("vnet-b", WestEurope, <<Net10_1>>,
                    << Subnet("snet-2", Sub10_1_1) >>) >>) >>,
      \* a subnet without address prefix before a regular one
      << Subscription("sub-1", SubDev,
            << Vnet("vnet-a", WestEurope, <<Net10_0>>,
                    << SubnetNoPrefix("snet-0"),
                       Subnet("snet-1", Sub10_0_1) >>) >>) >>,
      \* a subscription without networks
      << Subscription("sub-1", SubDev, <<>>) >> }

\* the devices discovery may report; location is that of the subnet's network
\*   vm-1 and vm-2 have the same name once truncated, vm-1 and nic-3 the same IP
DiscoveredDevices ==
    { [name |-> <<"a", "b", ".", "x">>, id |-> "vm-1", type |-> "vm",
       ip_address |-> "10.0.0.5", mac_address |-> "00:11"],
      [name |-> <<"a", "b", ".", "y">>, id |-> "vm-2", type |-> "vm",
       ip_address |-> "10.0.0.6", mac_address |-> ""],
      [name |-> <<"b", "a">>, id |-> "nic-3", type |-> "network_interface",
       ip_address |-> "10.0.0.5", mac_address |-> "00:33"] }

\* the subnets of a shape, as <<subscription, vnet, subnet>> positions
SubnetSlots(shape) ==
    UNION {UNION {{<<si, vi, ni>> : ni \in DOMAIN shape[si].vnets[vi].subnets} :
                      vi \in DOMAIN shape[si].vnets} :
           si \in DOMAIN shape}

\* get_devices_in_subnet: each reported device is appended, in report order,
\* to the devices of the subnet its ip configuration names
get_devices_in_subnet(shape, reported) ==
    [si \in DOMAIN shape |->
      LET sub == shape[si] IN
      [sub EXCEPT !.vnets =
        [vi \in DOMAIN sub.vnets |->
          LET vnet == sub.vnets[vi] IN
          [vnet EXCEPT !.subnets =
            [ni \in DOMAIN vnet.subnets |->
              LET here == SelectSeq(reported, LAMBDA r : r.slot = <<si, vi, ni>>) IN
              [vnet.subnets[ni] EXCEPT !.devices =
                [k \in DOMAIN here |->
                  [name |-> here[k].device.name, id |-> here[k].device.id,
                   type |-> here[k].device.type,
                   ip_address |-> here[k].device.ip_address,
                   mac_address |-> here[k].device.mac_address,
                   location |-> vnet.location]]]]]]]]

\* main, lines 753-767: a subscription whose subnets hold no device gets a
\* fake one in the first subnet of its first network
fake_device ==
    [name |-> <<"t", "e", "s", "t", "-", "v", "m">>, id |-> "/fake/id", type |-> "vm",
     ip_address |-> "10.0.0.99", mac_address |-> "00:11:22:33:44:55",
     location |-> WestEurope]

WithFakeDevice(vnets_with_devices) ==
    IF \E vi \in DOMAIN vnets_with_devices :
           \E ni \in DOMAIN vnets_with_devices[vi].subnets :
               vnets_with_devices[vi].subnets[ni].devices # <<>>
    THEN vnets_with_devices
    ELSE IF vnets_with_devices # <<>> /\ vnets_with_devices[1].subnets # <<>>
    THEN [vnets_with_devices EXCEPT
             ![1].subnets[1].devices = Append(@, fake_device)]
    ELSE vnets_with_devices

\* main, lines 739-770: the list handed to sync_to_netbox
AllNetworkData(shape, reported) ==
    LET with_devices == get_devices_in_subnet(shape, reported) IN
    [si \in DOMAIN with_devices |->
        [with_devices[si] EXCEPT !.vnets = WithFakeDevice(@)]]

SyncInputs ==
    UNION {{AllNetworkData(shape, reported) :
              reported \in SeqsUpTo([device : DiscoveredDevices,
                                     slot : SubnetSlots(shape)], MaxDevices)} :
           shape \in NetworkShapes}

\* the inventory before the first run: empty, or holding records of another
\* origin, among them the address 10.0.0.5/32, unassigned or assigned to the
\* interface of an unrelated device
LegacyInventory(assigned_object_id) ==
    [EmptyInventory EXCEPT
        !.manufacturers = <<[id |-> 1, name |-> "Other", description |-> ""]>>,
        !.device_types = <<[id |-> 1, model |-> <<"Legacy">>, manufacturer |-> 1,
                            tags |-> <<>>]>>,
        !.device_roles = <<[id |-> 1, name |-> <<"Legacy">>, vm_role |-> FALSE,
                            tags |-> <<>>]>>,
        !.sites = <<[id |-> 1, name |-> <<"d", "c">>, status |-> "active",
                     description |-> <<"dc">>, tags |-> <<>>]>>,
        !.devices = <<[id |-> 1, name |-> <<"o", "l", "d">>, device_type |-> 1,
                       role |-> 1, site |-> 1, status |-> "active", tags |-> <<>>]>>,
        !.interfaces = <<[id |-> 1, device |-> 1, name |-> "eth0", type |-> "virtual",
                          mac_address |-> "", tags |-> <<>>]>>,
        !.ip_addresses = <<[id |-> 1, address |-> <<"10.0.0.5", "/32">>,
                            description |-> <<"legacy">>, status |-> "active",
                            tags |-> <<>>,
                            assigned_object_type |->
                                IF assigned_object_id = NoId THEN ""
                                ELSE "dcim.interface",
                            assigned_object_id |-> assigned_object_id]>>]

InitialInventories ==
    {EmptyInventory, LegacyInventory(NoId), LegacyInventory(1)}

(***************************************************************************)
(* sync_to_netbox(all_network_data, config, nb)                            *)
(***************************************************************************)
Ses == [nb |-> nb, log |-> log, fault |-> fault]

NoLocals ==
    [sync_tag_dict |-> <<>>, additional_tag_dicts |-> <<>>, sub_tags |-> <<>>,
     vnet_tags |-> <<>>, vnet_prefix |-> NoId, device_type |-> NoId,
     device_role |-> NoId, site |-> NoId, device_name |-> <<>>,
     nb_device |-> NoId, interface |-> NoId]

FirstPosition == [si |-> 1, vi |-> 1, ai |-> 1, ni |-> 1, di |-> 1]

subscription_data == all_network_data[idx.si]
this_vnet == subscription_data.vnets[idx.vi]
this_address_space == this_vnet.address_space[idx.ai]
this_subnet == this_vnet.subnets[idx.ni]
this_device == this_subnet.devices[idx.di]

\* the session after a step, and the position it leaves the run at: an
\* exception leaves sync_to_netbox and ends the run
Step(res, next_pc) ==
    /\ nb' = res.ses.nb
    /\ log' = res.ses.log
    /\ pc' = IF res.raised THEN "failed" ELSE next_pc

\* lines 490-499: the additional tags, in configuration order
RECURSIVE AdditionalTags(_, _, _)
AdditionalTags(ses, slugs, dicts) ==
    IF slugs = <<>> THEN Returned(ses, dicts)
    ELSE LET tag == get_or_create_tag(ses, capitalize(Head(slugs)), Head(slugs),
                                      <<"Additional tag: ", Head(slugs)>>)
         IN IF tag.raised THEN tag
            ELSE AdditionalTags(tag.ses, Tail(slugs),
                                Append(dicts, [id |-> tag.ret[1].id]))

\* lines 481-499
SyncTags ==
    /\ pc = "start"
    /\ \E sync_tag \in {get_or_create_tag(Ses, tags_config.sync_tag.name,
                              replace(lower(tags_config.sync_tag.name), " ", <<"-">>),
                              tags_config.sync_tag.description)} :
       \E more \in {IF sync_tag.raised THEN sync_tag
                    ELSE AdditionalTags(sync_tag.ses, tags_config.additional_tags, <<>>)} :
          /\ Step(more, "subscription")
          /\ locals' = IF more.raised THEN locals
                       ELSE [locals EXCEPT
                                !.sync_tag_dict = <<[id |-> sync_tag.ret[1].id]>>,
                                !.additional_tag_dicts = more.ret]
    /\ idx' = FirstPosition
    /\ UNCHANGED <<sync_config, fault, run, all_network_data>>

\* the chain with the tests ordered by where the token stands in the name
EnvSlug_FirstInName(subscription_name) ==
    LET sub_name_lower == lower(subscription_name)
        at(token) == {i \in 1..Len(sub_name_lower) :
                         IsPrefixOf(token, SubSeq(sub_name_lower, i, Len(sub_name_lower)))}
        tokens == {<<"d", "e", "v">>, <<"h", "m", "l">>, <<"u", "a", "t">>, <<"p", "r", "d">>}
        present == {t \in tokens : at(t) # {}}
    IN IF present = {} THEN <<>>
       ELSE CHOOSE t \in present :
               \A u \in present : \E m \in at(t) : \A k \in at(u) : m <= k

\* lines 505-515: the environment token of a subscription name, <<>> for none
EnvSlug(subscription_name) ==
    LET sub_name_lower == lower(subscription_name) IN
    IF OccursIn(<<"d", "e", "v">>, sub_name_lower) THEN <<"d", "e", "v">>
    ELSE IF OccursIn(<<"h", "m", "l">>, sub_name_lower) THEN <<"h", "m", "l">>
    ELSE IF OccursIn(<<"u", "a", "t">>, sub_name_lower) THEN <<"u", "a", "t">>
    ELSE IF OccursIn(<<"p", "r", "d">>, sub_name_lower) THEN <<"p", "r", "d">>
    ELSE <<>>

\* lines 501-531
BeginSubscription ==
    /\ pc = "subscription"
    /\ idx.si <= Len(all_network_data)
    /\ \E env_slug \in {EnvSlug(subscription_data.subscription_name)} :
       \E env_tag \in {IF env_slug # <<>>
                       THEN get_or_create_tag(Ses, upper(env_slug), env_slug,
                                              <<"Environment: ", upper(env_slug)>>)
                       ELSE Returned(Ses, <<>>)} :
       \E env_tag_dict \in {IF env_slug # <<>> /\ ~env_tag.raised
                            THEN <<[id |-> env_tag.ret[1].id]>>
                            ELSE <<>>} :
          /\ Step(env_tag, "vnet")
          /\ locals' = IF env_tag.raised THEN locals
                       ELSE [locals EXCEPT
                                !.sub_tags = locals.sync_tag_dict
                                             \o locals.additional_tag_dicts
                                             \o env_tag_dict]
    /\ idx' = [idx EXCEPT !.vi = 1]
    /\ UNCHANGED <<sync_config, fault, run, all_network_data>>

\* line 501: the loop over the subscriptions is exhausted
EndSubscriptions ==
    /\ pc = "subscription"
    /\ idx.si > Len(all_network_data)
    /\ pc' = "done"
    /\ UNCHANGED <<sync_config, fault, run, all_network_data, nb, idx, locals, log>>

\* lines 533-545
BeginVnet ==
    /\ pc = "vnet"
    /\ idx.vi <= Len(subscription_data.vnets)
    /\ \E location_slug \in {replace(lower(this_vnet.location), " ", <<>>)} :
       \E location_tag \in {get_or_create_tag(Ses, capitalize(location_slug),
                                              location_slug,
                                              <<"Azure region: ", this_vnet.location>>)} :
          /\ Step(location_tag, "address_space")
          /\ locals' = IF location_tag.raised THEN locals
                       ELSE [locals EXCEPT
                                !.vnet_tags = locals.sub_tags
                                              \o <<[id |-> location_tag.ret[1].id]>>]
    /\ idx' = [idx EXCEPT !.ai = 1]
    /\ UNCHANGED <<sync_config, fault, run, all_network_data>>

\* line 533: the loop over the networks of the subscription is exhausted
EndVnets ==
    /\ pc = "vnet"
    /\ idx.vi > Len(subscription_data.vnets)
    /\ pc' = "subscription"
    /\ idx' = [idx EXCEPT !.si = @ + 1]
    /\ UNCHANGED <<sync_config, fault, run, all_network_data, nb, locals, log>>

\* the line written to the run's log after a prefix upsert (lines 560-561,
\* 581-582), with the record and the parent the upsert was called with
Upserted(res, kind, prefix_value, parent) ==
    IF res.raised THEN res
    ELSE [res EXCEPT !.ses = Logged(res.ses,
             [op |-> "upsert", table |-> "prefixes", key |-> prefix_value,
              kind |-> kind, id |-> res.ret[1].id, parent |-> parent,
              created |-> res.created, position |-> idx])]

\* lines 547-561
UpsertVnetPrefix ==
    /\ pc = "address_space"
    /\ idx.ai <= Len(this_vnet.address_space)
    /\ \E res \in {get_or_create_prefix(Ses, this_address_space,
                      [description |-> <<"Azure VNet: ", this_vnet.name, " (Subscription: ",
                                         subscription_data.subscription_id, ")">>,
                       status |-> "active",
                       tags |-> locals.vnet_tags],
                      subscription_data.subscription_name,
                      subscription_data.subscription_id, SingleWriter)} :
          /\ Step(Upserted(res, "vnet", this_address_space, NoId), "subnet")
          /\ locals' = IF res.raised THEN locals
                       ELSE [locals EXCEPT !.vnet_prefix = res.ret[1].id]
    /\ idx' = [idx EXCEPT !.ni = 1]
    /\ UNCHANGED <<sync_config, fault, run, all_network_data>>

\* line 547: the loop over the address spaces of the network is exhausted
EndAddressSpaces ==
    /\ pc = "address_space"
    /\ idx.ai > Len(this_vnet.address_space)
    /\ pc' = "vnet"
    /\ idx' = [idx EXCEPT !.vi = @ + 1]
    /\ UNCHANGED <<sync_config, fault, run, all_network_data, nb, locals, log>>

\* lines 563-582
UpsertSubnetPrefix ==
    /\ pc = "subnet"
    /\ idx.ni <= Len(this_vnet.subnets)
    /\ this_subnet.address_prefix # <<>>
    /\ \E res \in {get_or_create_prefix(Ses, this_subnet.address_prefix[1],
                      [description |-> <<"Azure Subnet: ", this_subnet.name, " (VNet: ",
                                         this_vnet.name, ")">>,
                       status |-> "active",
                       tags |-> locals.vnet_tags,
                       parent |-> locals.vnet_prefix],
                      subscription_data.subscription_name,
                      subscription_data.subscription_id, SingleWriter)} :
          Step(Upserted(res, "subnet", this_subnet.address_prefix[1], locals.vnet_prefix),
               "device")
    /\ idx' = [idx EXCEPT !.di = 1]
    /\ UNCHANGED <<sync_config, fault, run, all_network_data, locals>>

\* a subnet without address prefix ends the loop over the subnets
SkipSubnet_LeavesLoop ==
    /\ pc = "subnet"
    /\ idx.ni <= Len(this_vnet.subnets)
    /\ this_subnet.address_prefix = <<>>
    /\ idx' = [idx EXCEPT !.ni = Len(this_vnet.subnets) + 1]
    /\ UNCHANGED <<sync_config, fault, pc, run, all_network_data, nb, locals, log>>

\* lines 564-566: a subnet without address prefix is passed over
SkipSubnet ==
    /\ pc = "subnet"
    /\ idx.ni <= Len(this_vnet.subnets)
    /\ this_subnet.address_prefix = <<>>
    /\ idx' = [idx EXCEPT !.ni = @ + 1]
    /\ UNCHANGED <<sync_config, fault, pc, run, all_network_data, nb, locals, log>>

\* line 563: the loop over the subnets of the network is exhausted
EndSubnets ==
    /\ pc = "subnet"
    /\ idx.ni > Len(this_vnet.subnets)
    /\ pc' = "address_space"
    /\ idx' = [idx EXCEPT !.ai = @ + 1]
    /\ UNCHANGED <<sync_config, fault, run, all_network_data, nb, locals, log>>

\* a name cut to the length budget after the suffix is appended, which
\* loses the suffix of a long name
SuffixedName_CutsSuffix(device_name, suffix) ==
    SliceTo(device_name \o <<"-">> \o str(suffix), mapping.max_name_length)

\* lines 627-631: the name tried for a suffix
SuffixedName(device_name, suffix) ==
    LET unique_name == device_name \o <<"-">> \o str(suffix) IN
    IF Len(unique_name) > mapping.max_name_length
    THEN SliceTo(device_name, mapping.max_name_length - Len(str(suffix)) - 1)
         \o <<"-">> \o str(suffix)
    ELSE unique_name

\* lines 628-648: create under the next suffix until NetBox accepts the name
RECURSIVE CreateWithSuffix(_, _, _)
CreateWithSuffix(ses, fields, suffix) ==
    LET made == DevicesCreate(ses,
                    [fields EXCEPT !.name = SuffixedName(fields.name, suffix)])
    IN IF made.raised /\ made.error = "Device name must be unique per site"
       THEN CreateWithSuffix(made.ses, fields, suffix + 1) ELSE made

\* a device found under the computed name is not reused: a record with a
\* suffixed name is created beside it
GetOrCreateDevice_CreatesBesideFound(ses, device_name, device_type, device_role, site, tags) ==
    LET found == Get(ses, "devices", device_name,
                     LAMBDA d : d.name = device_name /\ d.site = site)
        fields == [name |-> device_name, device_type |-> device_type,
                   role |-> device_role, site |-> site, status |-> "active",
                   tags |-> tags]
    IN IF found.raised THEN found
       ELSE IF found.ret # <<>> THEN CreateWithSuffix(found.ses, fields, 1)
       ELSE LET made == DevicesCreate(found.ses, fields) IN
            IF made.raised /\ made.error = "Device name must be unique per site"
            THEN CreateWithSuffix(made.ses, fields, 1) ELSE made

\* lines 610-650: the device record for a computed name in a site
GetOrCreateDevice(ses, device_name, device_type, device_role, site, tags) ==
    LET found == Get(ses, "devices", device_name,
                     LAMBDA d : d.name = device_name /\ d.site = site)
        fields == [name |-> device_name, device_type |-> device_type,
                   role |-> device_role, site |-> site, status |-> "active",
                   tags |-> tags]
    IN IF found.raised \/ found.ret # <<>> THEN found
       ELSE LET made == DevicesCreate(found.ses, fields) IN
            IF made.raised /\ made.error = "Device name must be unique per site"
            THEN CreateWithSuffix(made.ses, fields, 1) ELSE made

\* lines 584-650: device type, device role, site and device of one discovered
\* device; the first call that raises ends the step
UpsertDevice ==
    /\ pc = "device"
    /\ idx.di <= Len(this_subnet.devices)
    /\ \E tags \in {locals.sync_tag_dict} :
       \E device_type \in {get_or_create_device_type(Ses,
                              <<mapping.device_type_prefix, " ", title(this_device.type)>>,
                              mapping.manufacturer, tags)} :
       \E device_role \in {IF device_type.raised THEN device_type
                           ELSE get_or_create_device_role(device_type.ses,
                                    <<mapping.device_role_prefix, " ",
                                      title(this_device.type)>>,
                                    this_device.type = "vm", tags)} :
       \E site \in {IF device_role.raised THEN device_role
                    ELSE get_or_create_site(device_role.ses,
                             mapping.site_prefix \o this_device.location,
                             <<"Azure Region: ", this_device.location>>, tags)} :
       \E device_name \in {truncate_name(this_device.name, mapping.max_name_length)} :
       \E nb_device \in {IF site.raised THEN site
                         ELSE GetOrCreateDevice(site.ses, device_name,
                                  device_type.ret[1].id, device_role.ret[1].id,
                                  site.ret[1].id, tags)} :
          /\ Step(nb_device, "interface")
          /\ locals' = IF nb_device.raised THEN locals
                       ELSE [locals EXCEPT !.device_type = device_type.ret[1].id,
                                           !.device_role = device_role.ret[1].id,
                                           !.site = site.ret[1].id,
                                           !.device_name = device_name,
                                           !.nb_device = nb_device.ret[1].id]
    /\ UNCHANGED <<sync_config, fault, run, all_network_data, idx>>

\* a loop over the devices that may stop before the last device of the subnet
EndDevices_LeavesEarly ==
    /\ pc = "device"
    /\ idx.di >= Len(this_subnet.devices)
    /\ pc' = "subnet"
    /\ idx' = [idx EXCEPT !.ni = @ + 1]
    /\ UNCHANGED <<sync_config, fault, run, all_network_data, nb, locals, log>>
\* line 584: the loop over the devices of the subnet is exhausted
EndDevices ==
    /\ pc = "device"
    /\ idx.di > Len(this_subnet.devices)
    /\ pc' = "subnet"
    /\ idx' = [idx EXCEPT !.ni = @ + 1]
    /\ UNCHANGED <<sync_config, fault, run, all_network_data, nb, locals, log>>

\* lines 652-664
UpsertInterface ==
    /\ pc = "interface"
    /\ \E interface_name \in {mapping.default_interface} :
       \E found \in {Get(Ses, "interfaces", <<locals.nb_device, interface_name>>,
                         LAMBDA i : i.device = locals.nb_device
                                    /\ i.name = interface_name)} :
       \E interface \in {IF found.raised \/ found.ret # <<>> THEN found
                         ELSE Create(found.ses, "interfaces",
                                     <<locals.nb_device, interface_name>>,
                                     [device |-> locals.nb_device,
                                      name |-> interface_name,
                                      type |-> "virtual",
                                      mac_address |->
                                          IF this_device.mac_address # ""
                                          THEN this_device.mac_address ELSE None,
                                      tags |-> locals.sync_tag_dict])} :
          /\ Step(interface, "address")
          /\ locals' = IF interface.raised THEN locals
                       ELSE [locals EXCEPT !.interface = interface.ret[1].id]
    /\ UNCHANGED <<sync_config, fault, run, all_network_data, idx>>

\* a lookup that never finds the address record
IpAddressesGet_NeverFound(ses, address) ==
    Returned(Logged(ses, Ev("get", "ip_addresses", address)), <<>>)

\* ipam.ip_addresses.get(address=...), line 666
IpAddressesGet(ses, address) ==
    Get(ses, "ip_addresses", address, LAMBDA a : a.address = address)

\* an existing address record is left with the interface it has
GetOrCreateAddress_KeepsHolder(ses, ip, interface, device_name, tags) ==
    LET address == <<ip, "/32">>
        found == IpAddressesGet(ses, address)
    IN IF found.raised \/ found.ret # <<>> THEN found
       ELSE Create(found.ses, "ip_addresses", address,
                   [address |-> address,
                    description |-> <<"IP for ", device_name>>,
                    status |-> "active",
                    tags |-> tags,
                    assigned_object_type |-> "dcim.interface",
                    assigned_object_id |-> interface])

\* the address step moving a record only when no interface holds it
GetOrCreateAddress_MovesUnassignedOnly(ses, ip, interface, device_name, tags) ==
    LET address == <<ip, "/32">>
        found == IpAddressesGet(ses, address)
    IN IF found.raised THEN found
       ELSE IF found.ret # <<>>
       THEN IF found.ret[1].assigned_object_id = NoId
            THEN Save(found.ses, "ip_addresses", address,
                      [found.ret[1] EXCEPT !.assigned_object_id = interface,
                                           !.assigned_object_type = "dcim.interface"])
            ELSE found
       ELSE Create(found.ses, "ip_addresses", address,
                   [address |-> address,
                    description |-> <<"IP for ", device_name>>,
                    status |-> "active",
                    tags |-> tags,
                    assigned_object_type |-> "dcim.interface",
                    assigned_object_id |-> interface])

\* lines 666-683: the address record of the device's IP is assigned to the
\* device's interface
GetOrCreateAddress(ses, ip, interface, device_name, tags) ==
    LET address == <<ip, "/32">>
        found == IpAddressesGet(ses, address)
    IN IF found.raised THEN found
       ELSE IF found.ret # <<>>
       THEN LET ip_address == found.ret[1] IN
            IF \/ ip_address.assigned_object_id # interface
               \/ ip_address.assigned_object_type # "dcim.interface"
            THEN LET moved == [ip_address EXCEPT
                                  !.assigned_object_id = interface,
                                  !.assigned_object_type = "dcim.interface"]
                 IN Save(found.ses, "ip_addresses", address, moved)
            ELSE found
       ELSE Create(found.ses, "ip_addresses", address,
                   [address |-> address,
                    description |-> <<"IP for ", device_name>>,
                    status |-> "active",
                    tags |-> tags,
                    assigned_object_type |-> "dcim.interface",
                    assigned_object_id |-> interface])

\* the line written to the run's log once a discovered device is through
\* (lines 668, 683), with the records it ended on
DeviceSynced(res) ==
    [res EXCEPT !.ses = Logged(res.ses,
        [op |-> "synced", table |-> "devices", key |-> this_device.id,
         position |-> idx, nb_device |-> locals.nb_device,
         interface |-> locals.interface, ip_address |-> res.ret[1].id])]

UpsertAddress ==
    /\ pc = "address"
    /\ \E res \in {GetOrCreateAddress(Ses, this_device.ip_address, locals.interface,
                                       locals.device_name, locals.sync_tag_dict)} :
       \E synced \in {IF res.raised THEN res ELSE DeviceSynced(res)} :
          Step(synced, "device")
    /\ idx' = [idx EXCEPT !.di = @ + 1]
    /\ UNCHANGED <<sync_config, fault, run, all_network_data, locals>>

\* main is started again on the inventory the finished run left, with the
\* same discovery result
Rerun ==
    /\ pc = "done"
    /\ run < MaxRuns
    /\ run' = run + 1
    /\ pc' = "start"
    /\ idx' = FirstPosition
    /\ locals' = NoLocals
    /\ log' = <<>>
    /\ UNCHANGED <<sync_config, fault, all_network_data, nb>>

\* the configurations of the runs: no additional tag or one, and a maximum
\* name length that cuts the discovered names
SyncConfigs ==
    [max_name_length : {3}, additional_tags : {<<>>, << <<"n", "e", "t">> >>}]

SyncInit ==
    /\ sync_config \in SyncConfigs
    /\ fault = NoFault
    /\ pc = "start"
    /\ run = 1
    /\ all_network_data \in SyncInputs
    /\ nb \in InitialInventories
    /\ idx = FirstPosition
    /\ locals = NoLocals
    /\ log = <<>>

(***************************************************************************)
(* sync_to_netbox with one request to the inventory failing                *)
(***************************************************************************)
MaxFaultAt == 44        \* latest request of a run that fails

FaultKinds == {"RequestError", "ConnectionError"}
FaultPlans == {NoFault} \cup [at : 1..MaxFaultAt, kind : FaultKinds]

\* one subscription, two subscriptions, and a subscription with a subnet
\* without address prefix, each with at most one reported device
FaultShapes ==
    {shape \in NetworkShapes :
        /\ \A si \in DOMAIN shape :
              /\ Len(shape[si].vnets) = 1
              /\ Len(shape[si].vnets[1].address_space) = 1
        /\ \A si, sj \in DOMAIN shape :
              si # sj => shape[si].vnets[1].address_space
                            # shape[sj].vnets[1].address_space}

FaultInputs ==
    UNION {{AllNetworkData(shape, reported) :
              reported \in SeqsUpTo([device : DiscoveredDevices,
                                     slot : SubnetSlots(shape)], 1)} :
           shape \in FaultShapes}

FaultInit ==
    /\ sync_config \in {c \in SyncConfigs : c.additional_tags = <<>>}
    /\ fault \in FaultPlans
    /\ pc = "start"
    /\ run = 1
    /\ all_network_data \in FaultInputs
    /\ nb \in {EmptyInventory, LegacyInventory(1)}
    /\ idx = FirstPosition
    /\ locals = NoLocals
    /\ log = <<>>

(***************************************************************************)
(* update_list_available_ips (ips/netbox.py): one row of the CSV           *)
(***************************************************************************)
DigitChars == {Digit(d) : d \in 0..9}
DigitValue(c) == CHOOSE d \in 0..9 : Digit(d) = c

RECURSIVE NumberOf(_)
NumberOf(digits) ==
    IF digits = <<>> THEN 0
    ELSE 10 * NumberOf(SubSeq(digits, 1, Len(digits) - 1)) + DigitValue(digits[Len(digits)])

\* to_int: blanks and commas are dropped; what is left is read as a number,
\* and the default stands for an empty or unreadable cell
to_int(cell, default) ==
    LET t == SelectSeq(cell, LAMBDA c : c \notin {" ", ","}) IN
    IF t = <<>> THEN default
    ELSE IF \A i \in DOMAIN t : t[i] \in DigitChars THEN NumberOf(t)
    ELSE default

\* fmt_int: the digits in groups of three, separated by a blank
RECURSIVE GroupThousands(_)
GroupThousands(digits) ==
    IF Len(digits) <= 3 THEN digits
    ELSE GroupThousands(SubSeq(digits, 1, Len(digits) - 3))
         \o <<" ">> \o SubSeq(digits, Len(digits) - 2, Len(digits))
fmt_int(n) == GroupThousands(str(n))

\* the CIDRs of the model read as IPv4 networks: Net10_0 is 10.0.0.0/16,
\* Sub10_0_1 is 10.0.1.0/24
PrefixLength(cidr) == 8 + 8 * cidr.len
num_addresses(cidr) == Pow2(32 - PrefixLength(cidr))

\* avail_pct, in tenths of a percent; <<>> is None.  The quotient is rounded
\* to the nearest tenth.
avail_pct(prefix_cidr, ips_avail) ==
    LET usable == IF num_addresses(prefix_cidr) - 5 > 0
                  THEN num_addresses(prefix_cidr) - 5 ELSE 0
        tenths == (2000 * ips_avail + usable) \div (2 * usable)
    IN IF usable = 0 THEN <<>>
       ELSE << IF tenths > 1000 THEN 1000 ELSE IF tenths < 0 THEN 0 ELSE tenths >>

make_summary(prefix_cidr, nb_subnets, ips_used, ips_avail) ==
    LET line == <<"Subnets: ">> \o fmt_int(nb_subnets)
                \o <<" | Utilisees: ">> \o fmt_int(ips_used)
                \o <<" | Disponibles: ">> \o fmt_int(ips_avail)
        pct == avail_pct(prefix_cidr, ips_avail)
    IN IF pct # <<>>
       THEN line \o <<" | ">> \o str(pct[1] \div 10) \o <<".">> \o str(pct[1] % 10)
                 \o <<"%">>
       ELSE line

\* lines 109-110: cf = p.custom_fields or {}; cf["list_available_ips"] = summary
WithSummary(cf, summary) ==
    [k \in DOMAIN cf \cup {"list_available_ips"} |->
        IF k = "list_available_ips" THEN summary ELSE cf[k]]

\* Record.update: the request is sent, and True returned, when a field changes
RecordUpdate(ses, p, cf) ==
    IF p.custom_fields = cf THEN [ses |-> ses, ok |-> FALSE]
    ELSE [ses |-> [ses EXCEPT !.nb.prefixes[p.id].custom_fields = cf,
                              !.log = Append(@, Ev("update", "prefixes", p.prefix))],
          ok |-> TRUE]

\* lines 108-119: the loop over the matches
RECURSIVE UpdateMatches(_, _, _, _, _)
UpdateMatches(ses, matches, summary, dry_run, updated) ==
    IF matches = <<>> THEN [ses |-> ses, updated |-> updated]
    ELSE LET p == Head(matches)
             cf == WithSummary(p.custom_fields, summary)
         IN IF dry_run
            THEN UpdateMatches(ses, Tail(matches), summary, dry_run, updated)
            ELSE LET done == RecordUpdate(ses, p, cf) IN
                 UpdateMatches(done.ses, Tail(matches), summary, dry_run,
                               IF done.ok THEN updated + 1 ELSE updated)

NoCounters == [updated |-> 0, skipped |-> 0, multi |-> 0, missing |-> 0]

\* the row with --dry-run not looked at in the loop over the matches
UpdateRow_DryRunWrites(ses, row, args, counters) ==
    IF row.prefix = <<>> THEN [ses |-> ses, counters |-> counters]
    ELSE LET prefix == row.prefix[1]
             summary == make_summary(prefix, to_int(row.subnets, 0),
                                     to_int(row.used, 0), to_int(row.avail, 0))
             found == Filter(ses, "prefixes", prefix, LAMBDA r : r.prefix = prefix)
             done == UpdateMatches(found.ses, found.ret, summary, FALSE, counters.updated)
         IN IF found.ret = <<>>
            THEN [ses |-> found.ses, counters |-> [counters EXCEPT !.missing = @ + 1]]
            ELSE IF args.strict_unique /\ Len(found.ret) # 1
            THEN [ses |-> found.ses, counters |-> [counters EXCEPT !.skipped = @ + 1]]
            ELSE [ses |-> done.ses,
                  counters |-> [counters EXCEPT
                      !.updated = done.updated,
                      !.multi = IF ~args.strict_unique /\ Len(found.ret) > 1
                                THEN @ + 1 ELSE @]]

\* lines 89-121: one row; row.prefix is <<>> for a cell that is empty once
\* stripped and <<cidr>> otherwise
UpdateRow(ses, row, args, counters) ==
    IF row.prefix = <<>> THEN [ses |-> ses, counters |-> counters]
    ELSE LET prefix == row.prefix[1]
             nb_subnets == to_int(row.subnets, 0)
             ips_used == to_int(row.used, 0)
             ips_avail == to_int(row.avail, 0)
             summary == make_summary(prefix, nb_subnets, ips_used, ips_avail)
             found == Filter(ses, "prefixes", prefix, LAMBDA r : r.prefix = prefix)
             matches == found.ret
         IN IF matches = <<>>
            THEN [ses |-> found.ses, counters |-> [counters EXCEPT !.missing = @ + 1]]
            ELSE IF args.strict_unique /\ Len(matches) # 1
            THEN [ses |-> found.ses, counters |-> [counters EXCEPT !.skipped = @ + 1]]
            ELSE LET done == UpdateMatches(found.ses, matches, summary, args.dry_run,
                                           counters.updated)
                 IN [ses |-> done.ses,
                     counters |-> [counters EXCEPT
                         !.updated = done.updated,
                         !.multi = IF ~args.strict_unique /\ Len(matches) > 1
                                   THEN @ + 1 ELSE @]]

\* the cells of the rows: plain, grouped with a blank or a comma, empty,
\* unreadable
CsvRows ==
    [prefix : {<<>>, <<Net10_0>>, <<Net10_1>>, <<Sub10_0_1>>},
     subnets : {<<"2">>, <<"x">>},
     used : {<<"1", ",", "2", "0", "0">>},
     avail : {<<"1", "5">>, <<"6", "4", " ", "0", "0", "0">>, <<>>}]

CsvArgs == [strict_unique : BOOLEAN, dry_run : BOOLEAN]

CsvUpdateRow ==
    /\ upc = "ready"
    /\ \E row \in CsvRows :
       \E args \in CsvArgs :
       \E done \in {UpdateRow(Ses, row, args, NoCounters)} :
          /\ csv_call' = [row |-> row, args |-> args]
          /\ csv_counters' = done.counters
          /\ nb' = done.ses.nb
          /\ log' = done.ses.log
    /\ upc' = "row_done"
    /\ UNCHANGED <<nb_before, up_call, up_result>>

(***************************************************************************)
(* get_or_create_prefix called on its own, on an inventory that holds any  *)
(* number of records of the prefix (up to MaxMatches)                      *)
(***************************************************************************)
MaxMatches == 2                       \* records of one prefix in the inventory

TagsA == <<[id |-> 1]>>
TagsB == <<[id |-> 1], [id |-> 2]>>

\* the custom fields of a prefix without and with the subscription of SubDev
NoSubscriptionFields == [azure_subscription |-> <<>>, azure_subscription_url |-> <<>>]
SubDevFields ==
    [azure_subscription |-> AzureSubscriptionValue(SubDev, "sub-1"),
     azure_subscription_url |-> AzureSubscriptionUrl("sub-1")]

\* the fields of the records of Net10_0 the inventory may hold
StoredPrefixFields ==
    [prefix : {Net10_0},
     description : {<<"Azure VNet: ", "vnet-a">>, <<"other">>},
     status : {"active", "reserved"},
     tags : {TagsA},
     parent : {NoId, 1},
     custom_fields : {NoSubscriptionFields, SubDevFields}]
    \cup
    \* a record that already holds the summary of a row
    {[prefix |-> Net10_0, description |-> <<"other">>, status |-> "active",
      tags |-> TagsA, parent |-> NoId,
      custom_fields |-> WithSummary(NoSubscriptionFields,
                                    make_summary(Net10_0, 2, 1200, 15))]}

WithIds(fields) ==
    [i \in DOMAIN fields |->
        [k \in DOMAIN fields[i] \cup {"id"} |-> IF k = "id" THEN i ELSE fields[i][k]]]

\* a record of another prefix first, then the records of Net10_0
UpsertInventories ==
    {[EmptyInventory EXCEPT !.prefixes = WithIds(
          << [prefix |-> Net10_1, description |-> <<"other">>, status |-> "active",
              tags |-> TagsA, parent |-> NoId,
              custom_fields |-> NoSubscriptionFields] >> \o stored)] :
        stored \in SeqsUpTo(StoredPrefixFields, MaxMatches)}

\* the defaults sync_to_netbox passes: without 'parent' for an address space
\* and with it for a subnet
UpsertDefaults ==
    [description : {<<"Azure VNet: ", "vnet-a">>, <<"Azure Subnet: ", "snet-1">>},
     status : {"active"}, tags : {TagsA, TagsB}]
    \cup [description : {<<"Azure VNet: ", "vnet-a">>, <<"Azure Subnet: ", "snet-1">>},
          status : {"active"}, tags : {TagsA, TagsB}, parent : {1}]

UpsertEnvs ==
    [racing : {<<>>, << [prefix |-> Net10_0, description |-> <<"racing">>,
                         status |-> "active", tags |-> <<>>, parent |-> NoId,
                         custom_fields |-> NoSubscriptionFields] >>},
     enforce_unique : BOOLEAN]

UpsertCalls ==
    [prefix_value : {Net10_0}, defaults : UpsertDefaults, env : UpsertEnvs,
     subscription : {[name |-> <<>>, id |-> ""], [name |-> SubDev, id |-> "sub-1"]}]

UpsertInit ==
    /\ upc = "ready"
    /\ nb \in UpsertInventories
    /\ nb_before = nb
    /\ log = <<>>
    /\ up_call = None /\ up_result = None
    /\ csv_call = None /\ csv_counters = None

CallGetOrCreatePrefix ==
    /\ upc = "ready"
    /\ \E c \in UpsertCalls :
       \E res \in {get_or_create_prefix(Ses, c.prefix_value, c.defaults,
                                        c.subscription.name, c.subscription.id, c.env)} :
          /\ up_call' = c
          /\ up_result' = [ret |-> res.ret, raised |-> res.raised, created |-> res.created]
          /\ nb' = res.ses.nb
          /\ log' = res.ses.log
    /\ upc' = "returned"
    /\ UNCHANGED <<nb_before, csv_call, csv_counters>>

(***************************************************************************)
(* The device create and its suffix retry, one request per step            *)
(***************************************************************************)
MaxTaken == 11          \* most suffixed names taken in the site
MaxRetryLength == 4     \* largest max_name_length tried
MaxSuffix == MaxTaken + 2

OtherSite == 2

DeviceFields(device_name, site) ==
    [name |-> device_name, device_type |-> 1, role |-> 1, site |-> site,
     status |-> "active", tags |-> <<>>]

RetryNames == {<<"a">>, <<"a", "b", "c", "d">>}

\* the names of the first n suffixes, as a table of devices of the site,
\* without the one for suffix hole (0: none left out)
RECURSIVE TakenSuffixes(_, _, _)
TakenSuffixes(device_name, n, hole) ==
    IF n = 0 THEN <<>>
    ELSE LET rest == TakenSuffixes(device_name, n - 1, hole) IN
         IF n = hole THEN rest
         ELSE Append(rest, DeviceFields(SuffixedName(device_name, n), 1))

\* the device tables the create runs against: the computed name taken or
\* free in the site, some suffixed names taken, and the next suffixed name
\* held by a device of another site
RetryInventories(device_name) ==
    {[EmptyInventory EXCEPT !.devices = WithIds(base \o taken \o decoy)] :
        base \in {<<>>, <<DeviceFields(device_name, 1)>>},
        taken \in {TakenSuffixes(device_name, n, hole) :
                      n \in 0..MaxTaken, hole \in 0..2},
        decoy \in {<<>>, <<DeviceFields(device_name, OtherSite)>>}}

RetryInit ==
    /\ \E max_name_length \in 1..MaxRetryLength, raw \in RetryNames :
          /\ sync_config = [max_name_length |-> max_name_length,
                            additional_tags |-> <<>>]
          /\ r_fields = DeviceFields(truncate_name(raw, max_name_length), 1)
          /\ nb \in RetryInventories(r_fields.name)
    /\ log = <<>> /\ fault = NoFault
    /\ rpc = "create"
    /\ r_suffix = 0
    /\ r_fault \in 0..3

\* a RequestError that is not about the name
OtherError(ses, fields) ==
    Raise(Logged(ses, Ev("create_failed", "devices", fields.name)), "RequestError")

\* lines 615-650: the create under the computed name; the name being taken
\* starts the loop at suffix 1, any other error is raised
FirstCreate ==
    /\ rpc = "create"
    /\ \E made \in {IF r_fault = 1 THEN OtherError(Ses, r_fields)
                     ELSE DevicesCreate(Ses, r_fields)} :
          /\ nb' = made.ses.nb
          /\ log' = made.ses.log
          /\ rpc' = IF ~made.raised THEN "created"
                    ELSE IF r_fault = 1 THEN "raised" ELSE "retry"
          /\ r_suffix' = IF made.raised /\ r_fault # 1 THEN 1 ELSE r_suffix
    /\ UNCHANGED <<r_fields, r_fault>>

\* lines 626-648: one turn of the loop: the create under the name of the
\* suffix; the name being taken moves to the next suffix, any other error
\* is raised
SuffixCreate ==
    /\ rpc = "retry"
    /\ r_suffix <= MaxSuffix
    /\ \E fields \in {[r_fields EXCEPT !.name = SuffixedName(r_fields.name, r_suffix)]} :
       \E made \in {IF r_fault = r_suffix + 1 THEN OtherError(Ses, fields)
                     ELSE DevicesCreate(Ses, fields)} :
          /\ nb' = made.ses.nb
          /\ log' = made.ses.log
          /\ rpc' = IF ~made.raised THEN "created"
                    ELSE IF r_fault = r_suffix + 1 THEN "raised" ELSE "retry"
          /\ r_suffix' = IF made.raised /\ r_fault # r_suffix + 1
                         THEN r_suffix + 1 ELSE r_suffix
    /\ UNCHANGED <<r_fields, r_fault>>

(***************************************************************************)
(* main of the three scripts                                               *)
(***************************************************************************)
AzureSync == "config/azure-sync.py"
WithConfig == "azure_netbox_with_config.py"
IpsNetbox == "ips/netbox.py"

\* the subscriptions to process before main chose them
NotSelected == [by |-> "unset", list |-> <<>>]

\* a setting of config['netbox'] or of the environment: the key is not there,
\* its value is null, the empty string, or a value
Absent == "absent"
Settings == {Absent, None, "", "set"}

\* `not value` of Python for a setting that is there
Falsy(value) == value \in {None, ""}

\* get_or_create_custom_field of both scripts: any exception of the lookup is
\* swallowed
get_or_create_custom_field(ses, field_name, field_type, field_description) ==
    LET got == Get(ses, "custom_fields", field_name, LAMBDA f : f.name = field_name) IN
    IF ~got.raised /\ got.ret # <<>> THEN got
    ELSE Create(got.ses, "custom_fields", field_name,
                [name |-> field_name, type |-> field_type,
                 description |-> field_description,
                 object_types |-> <<"ipam.prefix">>])

\* the body of setup_custom_fields gives up at the first call that raises
SetupField(res, enabled, field_name, field_type) ==
    IF res.raised \/ ~enabled THEN res
    ELSE get_or_create_custom_field(res.ses, field_name, field_type, field_name)

\* setup_custom_fields of config/azure-sync.py, lines 451-474: one test per
\* field; an exception is logged and not raised again
setup_custom_fields(ses, cf) ==
    LET first  == SetupField(Returned(ses, <<>>), cf.azure_subscription.enabled,
                             "azure_subscription", "text")
        second == SetupField(first, cf.azure_subscription_url.enabled,
                             "azure_subscription_url", "url")
    IN Returned(second.ses, <<>>)

\* setup_custom_fields of azure_netbox_with_config.py, lines 319-353: returns
\* at once unless azure_subscription is enabled, then sets up both fields
setup_custom_fields_cfg(ses, cf) ==
    IF ~cf.azure_subscription.enabled THEN Returned(ses, <<>>)
    ELSE LET first  == SetupField(Returned(ses, <<>>), TRUE, "azure_subscription", "text")
             second == SetupField(first, TRUE, "azure_subscription_url", "url")
         IN Returned(second.ses, <<>>)

\* apply_filters with every filter set empty: the networks that have a subnet
apply_no_filters(vnets) == SelectSeq(vnets, LAMBDA vnet : vnet.subnets # <<>>)

\* what each enumeration call of a subscription does
Outcomes == {"ok", "vnets_fail", "devices_fail"}

MainShapes == {shape \in FaultShapes : Len(shape) = 2}

\* group: the subscriptions of the management group the configuration names,
\* as positions in shape
MainPlans ==
    UNION {[shape : {shape},
            reported : SeqsUpTo([device : DiscoveredDevices,
                                 slot : SubnetSlots(shape)], 1),
            outcomes : [DOMAIN shape -> Outcomes],
            group : {<<>>}] :
           shape \in MainShapes}

\* the configuration file: it holds a mapping, it is not there, or it is not YAML
ConfigFiles == {"ok", "missing", "unparsable"}

\* the keys of config['azure']['subscriptions'] that are set, in the order
\* the header of config/azure-sync.py gives them
SubscriptionKeys == <<"process_all", "specific_id", "management_group">>

NoEnvironment == [NETBOX_URL |-> Absent, NETBOX_TOKEN |-> Absent]

\* netbox, subscriptions and custom_fields are what the file holds
MainConfigs ==
    [script : {AzureSync, WithConfig, IpsNetbox},
     file : {"ok"},
     environ : {NoEnvironment},
     netbox : [url : Settings, token : Settings],
     subscriptions : {{"process_all"}},
     custom_fields : [azure_subscription : [enabled : BOOLEAN],
                      azure_subscription_url : [enabled : BOOLEAN]]]

\* an inventory in which no custom field was set up yet
NoFieldsInventory == [EmptyInventory EXCEPT !.custom_fields = <<>>]

\* main before its first statement
MainStart ==
    /\ mpc = "start"
    /\ subscriptions = NotSelected
    /\ m_i = 0
    /\ azure = <<>>
    /\ warnings = <<>>
    /\ exit_code = None
    /\ sync_config \in {c \in SyncConfigs : c.additional_tags = <<>>}
    /\ fault = NoFault
    /\ pc = "idle"
    /\ run = 0
    /\ all_network_data = <<>>
    /\ idx = FirstPosition
    /\ locals = NoLocals
    /\ log = <<>>

MainInit ==
    /\ MainStart
    /\ m_config \in MainConfigs
    /\ m_plan \in MainPlans
    /\ nb \in {NoFieldsInventory, EmptyInventory}

mainRest == <<sync_config, fault, run, idx, locals>>

\* the URL or the token is not usable; a key that is not in config['netbox']
\* raises KeyError before the try block, os.environ.get gives None for it
Unusable(setting) == setting = Absent \/ Falsy(setting)

\* os.environ.get(name, '')
Getenv(environ, name) == IF environ[name] = Absent THEN "" ELSE environ[name]

\* azure_netbox_with_config.py 43-80, _get_default_config
DefaultConfig(cfg) ==
    [cfg EXCEPT !.netbox = [url |-> Getenv(cfg.environ, "NETBOX_URL"),
                            token |-> Getenv(cfg.environ, "NETBOX_TOKEN")],
                !.subscriptions = {"process_all"},
                !.custom_fields = [azure_subscription |-> [enabled |-> TRUE],
                                   azure_subscription_url |-> [enabled |-> TRUE]]]

\* what loading comes to: the configuration in effect, or sys.exit(1)
Loaded(cfg) == [config |-> cfg, exits |-> FALSE]
LoadExits(cfg) == [config |-> cfg, exits |-> TRUE]

\* load_config of config/azure-sync.py, lines 44-51: any exception ends the
\* process
load_config(cfg) == IF cfg.file = "ok" THEN Loaded(cfg) ELSE LoadExits(cfg)


\* _load_config of azure_netbox_with_config.py, lines 25-40: a file that is
\* not there gives the default configuration, a YAML error ends the process
load_config_cfg(cfg) ==
    IF cfg.file = "ok" THEN Loaded(cfg)
    ELSE IF cfg.file = "missing" THEN Loaded(DefaultConfig(cfg))
    ELSE LoadExits(cfg)

\* config/azure-sync.py 688-689, azure_netbox_with_config.py 423-424: main
\* loads the configuration; ips/netbox.py reads its arguments only
MainLoadConfig ==
    /\ mpc = "start"
    /\ \E loaded \in {IF m_config.script = AzureSync THEN load_config(m_config)
                       ELSE IF m_config.script = WithConfig THEN load_config_cfg(m_config)
                       ELSE Loaded(m_config)} :
          IF loaded.exits
          THEN /\ mpc' = "exited"
               /\ exit_code' = 1
               /\ UNCHANGED m_config
          ELSE /\ mpc' = "loaded"
               /\ m_config' = loaded.config
               /\ UNCHANGED exit_code
    /\ UNCHANGED <<m_plan, subscriptions, m_i, azure, warnings, mainRest,
                   pc, all_network_data, nb, log>>

\* the test with the token left out
MainValidate_UrlOnly ==
    /\ mpc = "loaded"
    /\ IF Unusable(m_config.netbox.url)
       THEN /\ mpc' = "exited"
            /\ exit_code' = IF m_config.script = IpsNetbox THEN 2 ELSE 1
       ELSE /\ mpc' = IF m_config.script = IpsNetbox THEN "rows" ELSE "credentials"
            /\ exit_code' = exit_code
    /\ UNCHANGED <<m_config, m_plan, subscriptions, m_i, azure, warnings, mainRest,
                   pc, all_network_data, nb, log>>

\* config/azure-sync.py 697-701, azure_netbox_with_config.py 432-436,
\* ips/netbox.py 57-61: the first thing main does with its settings
MainValidate ==
    /\ mpc = "loaded"
    /\ IF Unusable(m_config.netbox.url) \/ Unusable(m_config.netbox.token)
       THEN /\ mpc' = "exited"
            /\ exit_code' = IF m_config.script = IpsNetbox THEN 2 ELSE 1
       ELSE /\ mpc' = IF m_config.script = IpsNetbox THEN "rows" ELSE "credentials"
            /\ exit_code' = exit_code
    /\ UNCHANGED <<m_config, m_plan, subscriptions, m_i, azure, warnings, mainRest,
                   pc, all_network_data, nb, log>>

\* what the selection of the subscriptions comes to: the setting that chose
\* (by), the call sent to the cloud, the subscriptions as positions in
\* plan.shape, and whether main exits
Chosen(by, calls, list, exits) ==
    [by |-> by, calls |-> calls, list |-> list, exits |-> exits]
CloudCall(call) == << [call |-> call, subscription_id |-> None] >>
AllSubscriptions(plan) == [k \in DOMAIN plan.shape |-> k]

\* config/azure-sync.py 709-737: process_all, else specific_id (the
\* subscription is fetched), else management_group (an empty group ends the
\* run), else the run ends
SelectSubscriptions(set, plan) ==
    IF "process_all" \in set
    THEN Chosen("process_all", CloudCall("subscriptions"), AllSubscriptions(plan), FALSE)
    ELSE IF "specific_id" \in set
    THEN Chosen("specific_id", CloudCall("subscription"), <<1>>, FALSE)
    ELSE IF "management_group" \in set
    THEN Chosen("management_group", CloudCall("management_group"), plan.group,
                plan.group = <<>>)
    ELSE Chosen("none", <<>>, <<>>, TRUE)

\* azure_netbox_with_config.py 171-191 and 447-451,
\* get_subscriptions_to_process: management_group, else specific_id (no
\* call is sent), else every subscription; an empty list ends the run
get_subscriptions_to_process(set, plan) ==
    IF "management_group" \in set
    THEN Chosen("management_group", CloudCall("management_group"), plan.group,
                plan.group = <<>>)
    ELSE IF "specific_id" \in set
    THEN Chosen("specific_id", <<>>, <<1>>, FALSE)
    ELSE Chosen("process_all", CloudCall("subscriptions"), AllSubscriptions(plan), FALSE)

\* get_azure_credentials and the list of the subscriptions to process
MainListSubscriptions ==
    /\ mpc = "credentials"
    /\ \E chosen \in {IF m_config.script = AzureSync
                       THEN SelectSubscriptions(m_config.subscriptions, m_plan)
                       ELSE get_subscriptions_to_process(m_config.subscriptions, m_plan)} :
          /\ azure' = azure \o chosen.calls
          /\ subscriptions' = [by |-> chosen.by, list |-> chosen.list]
          /\ IF chosen.exits
             THEN mpc' = "exited" /\ exit_code' = 1 /\ UNCHANGED m_i
             ELSE mpc' = "enumerate" /\ m_i' = 1 /\ UNCHANGED exit_code
    /\ UNCHANGED <<m_config, m_plan, warnings, mainRest, pc, all_network_data, nb, log>>

\* the calls one pass of the loop sends to the cloud: the networks, then (in
\* config/azure-sync.py) the interfaces and virtual machines
EnumerationCalls(script, subscription_id, outcome) ==
    << [call |-> "vnets", subscription_id |-> subscription_id] >>
    \o IF script = AzureSync /\ outcome # "vnets_fail"
       THEN << [call |-> "devices", subscription_id |-> subscription_id] >>
       ELSE <<>>

EnumerationRaises(script, outcome) ==
    \/ outcome = "vnets_fail"
    \/ outcome = "devices_fail" /\ script = AzureSync

\* what one pass appends to all_network_data
SubscriptionData(script, plan, si) ==
    IF script = AzureSync
    THEN LET with_devices == get_devices_in_subnet(plan.shape, plan.reported)[si]
         IN [with_devices EXCEPT !.vnets = WithFakeDevice(apply_no_filters(@))]
    ELSE plan.shape[si]

\* config/azure-sync.py 754-755: the warning of a subscription without devices
NoDevicesFound == "No devices found; adding fake one for testing"
LacksDevices(script, plan, si) ==
    /\ script = AzureSync
    /\ LET found == apply_no_filters(
                        get_devices_in_subnet(plan.shape, plan.reported)[si].vnets)
       IN \A vi \in DOMAIN found :
              \A ni \in DOMAIN found[vi].subnets : found[vi].subnets[ni].devices = <<>>

\* config/azure-sync.py 739-770, azure_netbox_with_config.py 453-470: one
\* pass of the loop over the subscriptions; an exception reaches the handler
\* of main, which exits with 1
MainEnumerate ==
    /\ mpc = "enumerate"
    /\ m_i <= Len(subscriptions.list)
    /\ \E si \in {subscriptions.list[m_i]} :
          /\ azure' = azure \o EnumerationCalls(m_config.script,
                                                m_plan.shape[si].subscription_id,
                                                m_plan.outcomes[si])
          /\ IF EnumerationRaises(m_config.script, m_plan.outcomes[si])
             THEN /\ mpc' = "exited"
                  /\ exit_code' = 1
                  /\ UNCHANGED <<all_network_data, m_i, warnings>>
             ELSE /\ all_network_data' =
                        Append(all_network_data, SubscriptionData(m_config.script, m_plan, si))
                  /\ warnings' = IF LacksDevices(m_config.script, m_plan, si)
                                 THEN Append(warnings, NoDevicesFound) ELSE warnings
                  /\ m_i' = m_i + 1
                  /\ UNCHANGED <<mpc, exit_code>>
    /\ UNCHANGED <<m_config, m_plan, subscriptions, mainRest, pc, nb, log>>

\* config/azure-sync.py 772-780: the api object, setup_custom_fields, and the
\* call of sync_to_netbox, whose steps are those of the sync machine
MainSync ==
    /\ mpc = "enumerate"
    /\ m_i > Len(subscriptions.list)
    /\ m_config.script = AzureSync
    /\ \E done \in {setup_custom_fields(Ses, m_config.custom_fields)} :
          /\ nb' = done.ses.nb
          /\ log' = done.ses.log
    /\ pc' = "start"
    /\ run' = 1
    /\ mpc' = "sync"
    /\ UNCHANGED <<m_config, m_plan, subscriptions, m_i, azure, warnings, exit_code,
                   sync_config, fault, idx, locals, all_network_data>>

\* config/azure-sync.py 780-786: sync_to_netbox returned or raised
MainExit ==
    /\ mpc = "sync"
    /\ pc \in {"done", "failed"}
    /\ exit_code' = IF pc = "done" THEN 0 ELSE 1
    /\ mpc' = "exited"
    /\ UNCHANGED <<m_config, m_plan, subscriptions, m_i, azure, warnings, mainRest,
                   pc, all_network_data, nb, log>>

\* azure_netbox_with_config.py 472-480 and its sync_to_netbox, 288-317:
\* setup_custom_fields, the sync tag (its name is passed as its slug), and
\* process_subscription_data, which sends no request
MainSyncCfg ==
    /\ mpc = "enumerate"
    /\ m_i > Len(subscriptions.list)
    /\ m_config.script = WithConfig
    /\ \E done \in {setup_custom_fields_cfg(Ses, m_config.custom_fields)} :
       \E azure_tag \in {get_or_create_tag(done.ses, tags_config.sync_tag.name,
                                           tags_config.sync_tag.name,
                                           tags_config.sync_tag.description)} :
          /\ nb' = azure_tag.ses.nb
          /\ log' = azure_tag.ses.log
          /\ exit_code' = IF azure_tag.raised THEN 1 ELSE 0
    /\ mpc' = "exited"
    /\ UNCHANGED <<m_config, m_plan, subscriptions, m_i, azure, warnings, mainRest,
                   pc, all_network_data>>

(***************************************************************************)
(* The environment token of a subscription name, on its own                *)
(***************************************************************************)
MaxPieces == 3                        \* pieces a drawn subscription name is made of

\* the pieces: the four tokens in several spellings, parts of tokens, fillers
NamePieces ==
    { <<"d", "e", "v">>, <<"H", "M", "L">>, <<"U", "a", "t">>, <<"p", "r", "d">>,
      <<"d", "e">>, <<"x">>, <<"-">> }

RECURSIVE Concat(_)
Concat(pieces) ==
    IF pieces = <<>> THEN <<>> ELSE Head(pieces) \o Concat(Tail(pieces))

SubscriptionNames == {Concat(pieces) : pieces \in SeqsUpTo(NamePieces, MaxPieces)}

EnvInit ==
    /\ epc = "input"
    /\ e_name \in SubscriptionNames
    /\ e_slug = None

\* lines 505-515
ClassifyEnvironment ==
    /\ epc = "input"
    /\ e_slug' = EnvSlug(e_name)
    /\ epc' = "classified"
    /\ UNCHANGED e_name

(***************************************************************************)
(* extract_subscriptions: the walk over the tree of a management group     *)
(***************************************************************************)
MaxNodes == 4                         \* nodes below the management group asked for

SubscriptionType == "/subscriptions"
ManagementGroupType == "/providers/Microsoft.Management/managementGroups"
OtherType == "/providers/Microsoft.Other/things"
NodeTypes == {SubscriptionType, ManagementGroupType, OtherType}

\* a node is the sequence of child positions that leads to it from the root
Root == <<>>
Parent(node) == SubSeq(node, 1, Len(node) - 1)
ChildrenIn(nodes, node) == {c \in nodes : Len(c) = Len(node) + 1 /\ Parent(c) = node}

\* the sets of nodes that make a tree of at most n nodes below the root: the
\* root alone, or a smaller tree with one more last child under a node
Grow(nodes) ==
    {nodes \cup {Append(node, Cardinality(ChildrenIn(nodes, node)) + 1)} : node \in nodes}
RECURSIVE TreeShapes(_)
TreeShapes(n) ==
    IF n = 0 THEN {{Root}}
    ELSE LET smaller == TreeShapes(n - 1)
         IN smaller \cup UNION {Grow(nodes) : nodes \in smaller}

\* the trees management_groups.get(expand="children", recurse=True) may
\* return: a type for every node, the root being the management group
ManagementGroupTrees(n) ==
    UNION {{type \in [nodes -> NodeTypes] : type[Root] = ManagementGroupType} :
           nodes \in TreeShapes(n)}

\* mg_node.children
Children(tree, node) ==
    [k \in 1..Cardinality(ChildrenIn(DOMAIN tree, node)) |-> Append(node, k)]

TreeInit ==
    /\ gpc = "call"
    /\ mg_details \in ManagementGroupTrees(MaxNodes)
    /\ mg_stack = <<>>
    /\ mg_subscriptions = <<>>

\* the call in progress and the child its loop stands at
ThisCall == mg_stack[Len(mg_stack)]
LoopRuns ==
    /\ gpc = "walk"
    /\ ThisCall.child <= Len(Children(mg_details, ThisCall.mg_node))
ThisChild == Children(mg_details, ThisCall.mg_node)[ThisCall.child]
LoopAdvanced == [mg_stack EXCEPT ![Len(mg_stack)].child = @ + 1]

\* line 125: extract_subscriptions(mg_details)
CallExtract ==
    /\ gpc = "call"
    /\ mg_stack' = << [mg_node |-> Root, child |-> 1] >>
    /\ gpc' = "walk"
    /\ UNCHANGED <<mg_details, mg_subscriptions>>

\* lines 115-121: a child of type /subscriptions is appended
AppendSubscription ==
    /\ LoopRuns
    /\ mg_details[ThisChild] = SubscriptionType
    /\ mg_subscriptions' = Append(mg_subscriptions, ThisChild)
    /\ mg_stack' = LoopAdvanced
    /\ UNCHANGED <<gpc, mg_details>>

\* a walk that enters every child that is not a subscription
DescendIntoGroup_AnyType ==
    /\ LoopRuns
    /\ mg_details[ThisChild] # SubscriptionType
    /\ mg_stack' = Append(LoopAdvanced, [mg_node |-> ThisChild, child |-> 1])
    /\ UNCHANGED <<gpc, mg_details, mg_subscriptions>>
\* lines 122-123: a child that is a management group is walked in turn
DescendIntoGroup ==
    /\ LoopRuns
    /\ mg_details[ThisChild] = ManagementGroupType
    /\ mg_stack' = Append(LoopAdvanced, [mg_node |-> ThisChild, child |-> 1])
    /\ UNCHANGED <<gpc, mg_details, mg_subscriptions>>

\* lines 114-123: a child of any other type matches no branch
IgnoreChild ==
    /\ LoopRuns
    /\ mg_details[ThisChild] \notin {SubscriptionType, ManagementGroupType}
    /\ mg_stack' = LoopAdvanced
    /\ UNCHANGED <<gpc, mg_details, mg_subscriptions>>

\* lines 113-114: the node has no children or the loop is exhausted; the
\* return of the first call ends the walk
ReturnFromNode ==
    /\ gpc = "walk"
    /\ ThisCall.child > Len(Children(mg_details, ThisCall.mg_node))
    /\ mg_stack' = SubSeq(mg_stack, 1, Len(mg_stack) - 1)
    /\ gpc' = IF Len(mg_stack) = 1 THEN "returned" ELSE gpc
    /\ UNCHANGED <<mg_details, mg_subscriptions>>

(***************************************************************************)
(* Specifications                                                          *)
(***************************************************************************)
\* the variables of a state machine that a specification does not run
TruncIdle ==
    /\ tpc = "idle" /\ tn_name = <<>> /\ tn_max = 0
    /\ tn_result = None /\ tn_result_cfg = None

SyncIdle ==
    /\ sync_config = None /\ fault = NoFault
    /\ pc = "idle" /\ run = 0 /\ all_network_data = <<>> /\ nb = None
    /\ idx = None /\ locals = None /\ log = <<>>

FilterIdle ==
    /\ fpc = "idle" /\ discovered = <<>> /\ config = None /\ vnets_data = <<>>
    /\ filtered_vnets = <<>> /\ refiltered_vnets = <<>> /\ cfg_vnet_data = None

UpsertIdle ==
    /\ upc = "idle" /\ nb_before = None /\ up_call = None /\ up_result = None
    /\ csv_call = None /\ csv_counters = None

RetryIdle ==
    rpc = "idle" /\ r_fields = None /\ r_suffix = 0 /\ r_fault = 0

EnvIdle ==
    epc = "idle" /\ e_name = <<>> /\ e_slug = None

MainIdle ==
    /\ mpc = "idle" /\ m_config = None /\ m_plan = None /\ m_i = 0
    /\ subscriptions = NotSelected /\ warnings = <<>>
    /\ azure = <<>> /\ exit_code = None

TreeIdle ==
    gpc = "idle" /\ mg_details = None /\ mg_stack = <<>> /\ mg_subscriptions = <<>>

\* the sync variables a device create on its own leaves aside
RetryAside ==
    pc = "idle" /\ run = 0 /\ all_network_data = <<>> /\ idx = None /\ locals = None

\* the sync variables a prefix upsert on its own leaves aside
SyncAside ==
    /\ sync_config = None /\ fault = NoFault
    /\ pc = "idle" /\ run = 0 /\ all_network_data = <<>>
    /\ idx = None /\ locals = None

InitTrunc == TruncInit /\ FilterIdle /\ SyncIdle /\ UpsertIdle /\ RetryIdle /\ EnvIdle /\ MainIdle /\ TreeIdle
NextTrunc == TruncateName /\ UNCHANGED <<filterVars, syncVars, upsertVars, retryVars, envVars, mainVars, treeVars>>
SpecTrunc == InitTrunc /\ [][NextTrunc]_vars

InitFilter == FilterInit /\ TruncIdle /\ SyncIdle /\ UpsertIdle /\ RetryIdle /\ EnvIdle /\ MainIdle /\ TreeIdle
NextFilter ==
    \/ ListVnets /\ UNCHANGED <<truncVars, syncVars, upsertVars, retryVars, envVars, mainVars, treeVars>>
    \/ ApplyFilters /\ UNCHANGED <<truncVars, syncVars, upsertVars, retryVars, envVars, mainVars, treeVars>>
    \/ ApplyFiltersAgain /\ UNCHANGED <<truncVars, syncVars, upsertVars, retryVars, envVars, mainVars, treeVars>>
    \/ ListVnetsCfg /\ UNCHANGED <<truncVars, syncVars, upsertVars, retryVars, envVars, mainVars, treeVars>>
SpecFilter == InitFilter /\ [][NextFilter]_vars

InitSync == SyncInit /\ TruncIdle /\ FilterIdle /\ UpsertIdle /\ RetryIdle /\ EnvIdle /\ MainIdle /\ TreeIdle
NextSync ==
    \/ SyncTags /\ UNCHANGED <<truncVars, filterVars, upsertVars, retryVars, envVars, mainVars, treeVars>>
    \/ BeginSubscription /\ UNCHANGED <<truncVars, filterVars, upsertVars, retryVars, envVars, mainVars, treeVars>>
    \/ EndSubscriptions /\ UNCHANGED <<truncVars, filterVars, upsertVars, retryVars, envVars, mainVars, treeVars>>
    \/ BeginVnet /\ UNCHANGED <<truncVars, filterVars, upsertVars, retryVars, envVars, mainVars, treeVars>>
    \/ EndVnets /\ UNCHANGED <<truncVars, filterVars, upsertVars, retryVars, envVars, mainVars, treeVars>>
    \/ UpsertVnetPrefix /\ UNCHANGED <<truncVars, filterVars, upsertVars, retryVars, envVars, mainVars, treeVars>>
    \/ EndAddressSpaces /\ UNCHANGED <<truncVars, filterVars, upsertVars, retryVars, envVars, mainVars, treeVars>>
    \/ UpsertSubnetPrefix /\ UNCHANGED <<truncVars, filterVars, upsertVars, retryVars, envVars, mainVars, treeVars>>
    \/ SkipSubnet /\ UNCHANGED <<truncVars, filterVars, upsertVars, retryVars, envVars, mainVars, treeVars>>
    \/ EndSubnets /\ UNCHANGED <<truncVars, filterVars, upsertVars, retryVars, envVars, mainVars, treeVars>>
    \/ UpsertDevice /\ UNCHANGED <<truncVars, filterVars, upsertVars, retryVars, envVars, mainVars, treeVars>>
    \/ EndDevices /\ UNCHANGED <<truncVars, filterVars, upsertVars, retryVars, envVars, mainVars, treeVars>>
    \/ UpsertInterface /\ UNCHANGED <<truncVars, filterVars, upsertVars, retryVars, envVars, mainVars, treeVars>>
    \/ UpsertAddress /\ UNCHANGED <<truncVars, filterVars, upsertVars, retryVars, envVars, mainVars, treeVars>>
    \/ Rerun /\ UNCHANGED <<truncVars, filterVars, upsertVars, retryVars, envVars, mainVars, treeVars>>
SpecSync == InitSync /\ [][NextSync]_vars

\* sync_to_netbox is sequential code: a step that can be taken is taken.
\* The runs start without additional tags, on an empty inventory or on one
\* that holds the address of a discovered device
InitSyncLive ==
    /\ InitSync
    /\ sync_config.additional_tags = <<>>
    /\ nb \in {EmptyInventory, LegacyInventory(1)}
SpecSyncLive == InitSyncLive /\ [][NextSync]_vars /\ WF_vars(NextSync)

\* sync_to_netbox as main calls it: once
SyncOnce ==
    \/ SyncTags \/ BeginSubscription \/ EndSubscriptions \/ BeginVnet \/ EndVnets
    \/ UpsertVnetPrefix \/ EndAddressSpaces \/ UpsertSubnetPrefix \/ SkipSubnet
    \/ EndSubnets \/ UpsertDevice \/ EndDevices \/ UpsertInterface \/ UpsertAddress

mainAside == <<truncVars, filterVars, upsertVars, retryVars, envVars, treeVars>>
InitMain ==
    MainInit /\ TruncIdle /\ FilterIdle /\ UpsertIdle /\ RetryIdle /\ EnvIdle /\ TreeIdle
NextMain ==
    \/ MainLoadConfig /\ UNCHANGED mainAside
    \/ MainValidate /\ UNCHANGED mainAside
    \/ MainListSubscriptions /\ UNCHANGED mainAside
    \/ MainEnumerate /\ UNCHANGED mainAside
    \/ MainSync /\ UNCHANGED mainAside
    \/ MainSyncCfg /\ UNCHANGED mainAside
    \/ SyncOnce /\ UNCHANGED <<mainAside, mainVars>>
    \/ MainExit /\ UNCHANGED mainAside
SpecMain == InitMain /\ [][NextMain]_vars

\* main of the two synchronisation scripts started with any configuration
\* file, with or without NETBOX_URL and NETBOX_TOKEN in the environment, and
\* with any of the three subscription settings
SetEnvironment == [NETBOX_URL |-> "set", NETBOX_TOKEN |-> "set"]
StartupConfigs ==
    [script : {AzureSync, WithConfig},
     file : ConfigFiles,
     environ : {NoEnvironment, SetEnvironment},
     netbox : {[url |-> "set", token |-> "set"]},
     subscriptions : SUBSET Range(SubscriptionKeys),
     custom_fields : {[azure_subscription |-> [enabled |-> TRUE],
                       azure_subscription_url |-> [enabled |-> TRUE]]}]
StartupPlans ==
    {[plan EXCEPT !.group = group] :
        plan \in {p \in MainPlans : \A si \in DOMAIN p.shape : p.outcomes[si] = "ok"},
        group \in {<<>>, <<2>>}}
InitStartup ==
    /\ MainStart /\ TruncIdle /\ FilterIdle /\ UpsertIdle /\ RetryIdle /\ EnvIdle /\ TreeIdle
    /\ m_config \in StartupConfigs
    /\ m_plan \in StartupPlans
    /\ nb = EmptyInventory
SpecStartup == InitStartup /\ [][NextMain]_vars

\* extract_subscriptions is sequential code: a step that can be taken is taken
treeAside == <<truncVars, filterVars, syncVars, upsertVars, retryVars, envVars, mainVars>>
InitTree ==
    /\ TreeInit /\ TruncIdle /\ FilterIdle /\ SyncIdle /\ UpsertIdle /\ RetryIdle
    /\ EnvIdle /\ MainIdle
NextTree ==
    \/ CallExtract /\ UNCHANGED treeAside
    \/ AppendSubscription /\ UNCHANGED treeAside
    \/ DescendIntoGroup /\ UNCHANGED treeAside
    \/ IgnoreChild /\ UNCHANGED treeAside
    \/ ReturnFromNode /\ UNCHANGED treeAside
SpecTree == InitTree /\ [][NextTree]_vars /\ WF_vars(NextTree)

InitFault == FaultInit /\ TruncIdle /\ FilterIdle /\ UpsertIdle /\ RetryIdle /\ EnvIdle /\ MainIdle /\ TreeIdle
SpecFault == InitFault /\ [][NextSync]_vars

upsertAside == <<sync_config, fault, pc, run, all_network_data, idx, locals>>
InitUpsert == UpsertInit /\ TruncIdle /\ FilterIdle /\ SyncAside /\ RetryIdle /\ EnvIdle /\ MainIdle /\ TreeIdle
NextUpsert ==
    \/ CallGetOrCreatePrefix /\ UNCHANGED <<truncVars, filterVars, upsertAside, retryVars, envVars, mainVars, treeVars>>
    \/ CsvUpdateRow /\ UNCHANGED <<truncVars, filterVars, upsertAside, retryVars, envVars, mainVars, treeVars>>
SpecUpsert == InitUpsert /\ [][NextUpsert]_vars

\* get_or_create_prefix with one of its requests failing
MaxUpsertFaultAt == 3
UpsertFaults == {NoFault} \cup [at : 1..MaxUpsertFaultAt, kind : FaultKinds]
InitUpsertFault ==
    /\ UpsertInit /\ TruncIdle /\ FilterIdle /\ RetryIdle /\ EnvIdle /\ MainIdle /\ TreeIdle
    /\ sync_config = None /\ fault \in UpsertFaults
    /\ pc = "idle" /\ run = 0 /\ all_network_data = <<>>
    /\ idx = None /\ locals = None
NextUpsertFault ==
    CallGetOrCreatePrefix
        /\ UNCHANGED <<truncVars, filterVars, upsertAside, retryVars, envVars, mainVars, treeVars>>
SpecUpsertFault == InitUpsertFault /\ [][NextUpsertFault]_vars

retryAside == <<sync_config, fault, pc, run, all_network_data, idx, locals>>
InitRetry == RetryInit /\ TruncIdle /\ FilterIdle /\ UpsertIdle /\ RetryAside /\ EnvIdle /\ MainIdle /\ TreeIdle
NextRetry ==
    \/ FirstCreate /\ UNCHANGED <<truncVars, filterVars, upsertVars, retryAside, envVars, mainVars, treeVars>>
    \/ SuffixCreate /\ UNCHANGED <<truncVars, filterVars, upsertVars, retryAside, envVars, mainVars, treeVars>>
\* the loop is sequential code: a request that can be sent is sent
SpecRetry == InitRetry /\ [][NextRetry]_vars /\ WF_vars(NextRetry)

InitEnv ==
    EnvInit /\ TruncIdle /\ FilterIdle /\ SyncIdle /\ UpsertIdle /\ RetryIdle /\ MainIdle /\ TreeIdle
NextEnv ==
    ClassifyEnvironment
        /\ UNCHANGED <<truncVars, filterVars, syncVars, upsertVars, retryVars, mainVars, treeVars>>
SpecEnv == InitEnv /\ [][NextEnv]_vars

(***************************************************************************)
(* Claims about sync_to_netbox                                             *)
(***************************************************************************)
Done == pc = "done"
Events(op) == {k \in DOMAIN log : log[k].op = op}
SubnetUpserts == {k \in Events("upsert") : log[k].kind = "subnet"}
VnetUpserts == {k \in Events("upsert") : log[k].kind = "vnet"}
PrefixSaves == {k \in Events("save") : log[k].table = "prefixes"}

\* the discovered device a "synced" line is about, and the name computed for it
DeviceAt(p) ==
    all_network_data[p.si].vnets[p.vi].subnets[p.ni].devices[p.di]
ComputedName(d) == truncate_name(d.name, mapping.max_name_length)

\* C1: a second run on the inventory a first complete run left, with the same
\* discovery result, creates no record and issues no save of a prefix.
C1_SecondRunChangesNothing ==
    run >= 2 => Events("create") = {} /\ PrefixSaves = {}

\* the part of C1 about creates alone
C1_SecondRunCreatesNothing ==
    run >= 2 => Events("create") = {}

\* C2: the parent written with a subnet prefix is the record of a network
\* prefix whose CIDR encloses the subnet's CIDR and that was upserted earlier
\* in the same run.
C2_ParentEnclosesSubnet ==
    \A k \in SubnetUpserts :
        /\ log[k].parent \in DOMAIN nb.prefixes
        /\ nb.prefixes[log[k].id].parent = log[k].parent
        /\ Encloses(nb.prefixes[log[k].parent].prefix, log[k].key)
        /\ \E j \in VnetUpserts : j < k /\ log[j].id = log[k].parent

\* the part of C2 about the call order alone
C2_ParentUpsertedEarlier ==
    \A k \in SubnetUpserts :
        \E j \in VnetUpserts : j < k /\ log[j].id = log[k].parent

\* two "synced" lines of distinct discovered devices of one site whose
\* computed names are the same
Colliding(j, k) ==
    /\ j < k
    /\ log[j].key # log[k].key
    /\ DeviceAt(log[j].position).location = DeviceAt(log[k].position).location
    /\ ComputedName(DeviceAt(log[j].position)) = ComputedName(DeviceAt(log[k].position))

\* C3: two distinct discovered devices of one site with the same computed
\* name end as two device records with distinct names, each with its own
\* interface, and the second one's interface does not belong to the first
\* one's record.
C3_CollidingDevicesKeptApart ==
    Done => \A j, k \in Events("synced") :
                Colliding(j, k) =>
                    /\ log[j].nb_device # log[k].nb_device
                    /\ nb.devices[log[j].nb_device].name # nb.devices[log[k].nb_device].name
                    /\ log[j].interface # log[k].interface
                    /\ nb.interfaces[log[k].interface].device # log[j].nb_device

\* the interfaces an address value is assigned to, and its records
AddressValues == {nb.ip_addresses[i].address : i \in DOMAIN nb.ip_addresses}
RecordsOf(address) ==
    {i \in DOMAIN nb.ip_addresses : nb.ip_addresses[i].address = address}
HoldersOf(address) ==
    {nb.ip_addresses[i].assigned_object_id : i \in RecordsOf(address)} \ {NoId}

\* C4: after a complete run every IP value has at most one address record,
\* held by at most one interface, and the record of every synced device's IP
\* is held by an existing interface.
C4_OneRecordOneHolderPerAddress ==
    Done => /\ \A a \in AddressValues :
                  /\ Cardinality(RecordsOf(a)) <= 1
                  /\ Cardinality(HoldersOf(a)) <= 1
                  /\ HoldersOf(a) \subseteq DOMAIN nb.interfaces
            /\ \A k \in Events("synced") :
                  RecordsOf(<<DeviceAt(log[k].position).ip_address, "/32">>)
                      = {log[k].ip_address}

\* a first run is complete in which two devices reported 10.0.0.5 and the
\* record of that address, held by a foreign interface before the run, has
\* moved to the interface of the device synced last
C4_Witness ==
    /\ Done /\ run = 1
    /\ \E j, k \in Events("synced") :
          /\ j < k
          /\ log[j].key = "vm-1" /\ log[k].key = "nic-3"
          /\ log[j].ip_address = 1 /\ log[k].ip_address = 1
          /\ log[j].interface # log[k].interface
          /\ nb.ip_addresses[1].description = <<"legacy">>
          /\ "save" \in {log[m].op : m \in DOMAIN log}
          /\ nb.ip_addresses[1].assigned_object_id = log[k].interface
          /\ log[k].interface # 1

\* the tags of the run, by slug, and the tag set computed for a network
SyncSlug == replace(lower(tags_config.sync_tag.name), " ", <<"-">>)
RegionSlug(v) == replace(lower(v.location), " ", <<>>)
EnvSlugs(sub) ==
    IF EnvSlug(sub.subscription_name) # <<>> THEN {EnvSlug(sub.subscription_name)} ELSE {}
TagIdsOf(slugs) == {i \in DOMAIN nb.tags : nb.tags[i].slug \in slugs}
TagIds(rec) == IF "tags" \in DOMAIN rec THEN {rec.tags[i].id : i \in DOMAIN rec.tags} ELSE {}
NetworkTagIds(si, vi) ==
    TagIdsOf({SyncSlug} \cup Range(tags_config.additional_tags)
             \cup EnvSlugs(all_network_data[si])
             \cup {RegionSlug(all_network_data[si].vnets[vi])})

\* the records of a table that the current run created
Creates(table) == {k \in Events("create") : log[k].table = table}
CreatedIn(table) ==
    {i \in DOMAIN nb[table] : i > Len(nb[table]) - Cardinality(Creates(table))}
\* the tables sync_to_netbox writes (the custom fields are set up before it)
Tables == DOMAIN EmptyInventory \ {"custom_fields"}
StartedEmpty ==
    run = 1 /\ \A t \in Tables : Len(nb[t]) = Cardinality(Creates(t))

\* one subscription, one network with one address space, one subnet, one device
EndToEndScenario ==
    /\ Len(all_network_data) = 1
    /\ Len(all_network_data[1].vnets) = 1
    /\ Len(all_network_data[1].vnets[1].address_space) = 1
    /\ Len(all_network_data[1].vnets[1].subnets) = 1
    /\ all_network_data[1].vnets[1].subnets[1].address_prefix # <<>>
    /\ Len(all_network_data[1].vnets[1].subnets[1].devices) = 1

\* the requests of the scenario: two prefix upserts, the network's and then
\* the subnet's under it, and one device, one interface, one address created
C11_ScenarioRequests ==
    (Done /\ StartedEmpty /\ EndToEndScenario) =>
        /\ \E j, k \in Events("upsert") :
              /\ Events("upsert") = {j, k} /\ j < k
              /\ log[j].kind = "vnet" /\ log[k].kind = "subnet"
              /\ log[k].parent = log[j].id
              /\ nb.prefixes[log[k].id].parent = log[j].id
        /\ Cardinality(Creates("devices")) = 1
        /\ Cardinality(Creates("interfaces")) = 1
        /\ Cardinality(Creates("ip_addresses")) = 1

\* the tag set of the scenario's records
ScenarioTagIds == TagIdsOf({SyncSlug} \cup EnvSlugs(all_network_data[1])
                           \cup {RegionSlug(all_network_data[1].vnets[1])})

\* C11: in the end-to-end scenario on an empty inventory the run issues two
\* prefix upserts (network, then subnet under it), creates one device, one
\* interface and one address, and the tag set of the prefix, device,
\* interface and address records is exactly {sync, environment, region}.
C11_EndToEndScenario ==
    /\ C11_ScenarioRequests
    /\ (Done /\ StartedEmpty /\ EndToEndScenario) =>
           \A t \in {"prefixes", "devices", "interfaces", "ip_addresses"} :
               \A i \in DOMAIN nb[t] : TagIds(nb[t][i]) = ScenarioTagIds

\* the prefixes of the scenario carry that tag set when no additional tag is
\* configured
C11_PrefixTagsWithoutAdditional ==
    (Done /\ StartedEmpty /\ EndToEndScenario /\ tags_config.additional_tags = <<>>) =>
        \A i \in DOMAIN nb.prefixes : TagIds(nb.prefixes[i]) = ScenarioTagIds

\* C12: every record a run creates carries the tag set computed for a
\* network of the run: sync tag, additional tags, environment tag and region
\* tag.
C12_CreatedRecordsCarryNetworkTags ==
    Done => \A t \in Tables \ {"tags"} :
               \A i \in CreatedIn(t) :
                   \E si \in DOMAIN all_network_data :
                       \E vi \in DOMAIN all_network_data[si].vnets :
                           TagIds(nb[t][i]) = NetworkTagIds(si, vi)

\* the part of C12 about prefixes alone
C12_CreatedPrefixesCarryNetworkTags ==
    Done => \A i \in CreatedIn("prefixes") :
               \E si \in DOMAIN all_network_data :
                   \E vi \in DOMAIN all_network_data[si].vnets :
                       TagIds(nb.prefixes[i]) = NetworkTagIds(si, vi)

\* the step of sync_to_netbox that resolves the device record
DeviceStep == pc = "device" /\ pc' = "interface"
\* the step that settles the address record of the device
AddressStep == pc = "address" /\ pc' = "device"

\* C17: when a device record with the computed name exists in the resolved
\* site, it is the record the device step ends on, no device record is
\* created and no field of a device record changes.
C17_FoundDeviceReused ==
    [][DeviceStep =>
         \A i \in DOMAIN nb.devices :
             (/\ nb.devices[i].name = ComputedName(this_device)
              /\ nb.devices[i].site = locals'.site)
             => /\ locals'.nb_device = i
                /\ nb'.devices = nb.devices
                /\ \A k \in (DOMAIN log' \ DOMAIN log) :
                      ~(log'[k].table = "devices" /\ log'[k].op # "get")]_vars

\* in a second run the device step ended on the record the first run made
C17_Witness ==
    /\ pc = "interface" /\ run = 2
    /\ log[Len(log)] = Ev("get", "devices", locals.device_name)
    /\ nb.devices[locals.nb_device].name = locals.device_name
    /\ nb.devices[locals.nb_device].site = locals.site

ValueOf(d) == <<d.ip_address, "/32">>
RecordsIn(inventory, address) ==
    {i \in DOMAIN inventory.ip_addresses : inventory.ip_addresses[i].address = address}

\* C19: after the address step of a device with IP a there is one record
\* a/32, assigned to the default interface of the device's record: a record
\* that existed is the same record, saved when it was held by another
\* interface, and a missing one is created with the assignment.
C19_AddressAssignedToDeviceInterface ==
    [][AddressStep =>
         LET a == ValueOf(this_device)
             before == RecordsIn(nb, a)
             after == RecordsIn(nb', a)
             requests == {log'[k] : k \in DOMAIN log' \ DOMAIN log}
         IN /\ Cardinality(after) = 1
            /\ \A i \in after :
                  /\ nb'.ip_addresses[i].assigned_object_id = locals.interface
                  /\ nb'.ip_addresses[i].assigned_object_type = "dcim.interface"
            /\ nb'.interfaces[locals.interface].device = locals.nb_device
            /\ nb'.interfaces[locals.interface].name = mapping.default_interface
            /\ IF before = {}
               THEN /\ Len(nb'.ip_addresses) = Len(nb.ip_addresses) + 1
                    /\ Ev("create", "ip_addresses", a) \in requests
                    /\ Ev("save", "ip_addresses", a) \notin requests
               ELSE /\ after = before
                    /\ Len(nb'.ip_addresses) = Len(nb.ip_addresses)
                    /\ Ev("create", "ip_addresses", a) \notin requests
                    /\ \A i \in before :
                          (Ev("save", "ip_addresses", a) \in requests)
                          <=> (\/ nb.ip_addresses[i].assigned_object_id # locals.interface
                               \/ nb.ip_addresses[i].assigned_object_type
                                      # "dcim.interface")
            /\ \A j \in DOMAIN nb.ip_addresses \ before :
                  nb'.ip_addresses[j] = nb.ip_addresses[j]]_vars

\* the record of 10.0.0.5, held by a foreign interface before the run, has
\* just been saved with the interface of the device being synced
C19_Witness ==
    /\ pc = "device" /\ run = 1 /\ Len(log) >= 2
    /\ log[Len(log)].op = "synced"
    /\ log[Len(log) - 1] = Ev("save", "ip_addresses", <<"10.0.0.5", "/32">>)
    /\ Cardinality(Events("save")) = 1
    /\ nb.ip_addresses[1].description = <<"legacy">>
    /\ nb.ip_addresses[1].assigned_object_id = log[Len(log)].interface
    /\ log[Len(log)].interface # 1

\* the lines of the devices that report an address, and discovery order:
\* subscription, network, subnet, device
SyncedWith(address) ==
    {k \in Events("synced") : ValueOf(DeviceAt(log[k].position)) = address}
DiscoveredBefore(p, q) ==
    \/ p.si < q.si
    \/ p.si = q.si /\ p.vi < q.vi
    \/ p.si = q.si /\ p.vi = q.vi /\ p.ni < q.ni
    \/ p.si = q.si /\ p.vi = q.vi /\ p.ni = q.ni /\ p.di < q.di
LastInDiscovery(address) ==
    {k \in SyncedWith(address) :
        \A j \in SyncedWith(address) : ~DiscoveredBefore(log[k].position, log[j].position)}

\* C36: an address several devices of a run report ends the run on the
\* interface of the device that comes last in discovery order, and so on
\* the same interface, of the same device name, at the end of either run.
C36_LastReporterHoldsAddress ==
    Done =>
        \A a \in AddressValues :
            SyncedWith(a) # {} =>
                \A k \in LastInDiscovery(a) :
                    /\ HoldersOf(a) = {log[k].interface}
                    /\ nb.interfaces[log[k].interface].device = log[k].nb_device
                    /\ nb.interfaces[log[k].interface].name = mapping.default_interface
                    /\ nb.devices[log[k].nb_device].name
                          = ComputedName(DeviceAt(log[k].position))

\* a run on an inventory without the address is complete in which two devices
\* with different records reported it, and the second one's interface holds it
C36_Witness ==
    /\ Done
    /\ \E j, k \in Events("synced") :
          /\ DiscoveredBefore(log[j].position, log[k].position)
          /\ ValueOf(DeviceAt(log[j].position)) = ValueOf(DeviceAt(log[k].position))
          /\ log[j].interface # log[k].interface
          /\ HoldersOf(ValueOf(DeviceAt(log[k].position))) = {log[k].interface}
          /\ nb.ip_addresses[log[k].ip_address].description # <<"legacy">>

\* the network, subnet or device a line of the log is about
SameSubnet(p, q) == p.si = q.si /\ p.vi = q.vi /\ p.ni = q.ni

\* C20: within a run no address space and no subnet is upserted twice and no
\* device of a subnet passes through the device steps twice.
C20_NothingProcessedTwice ==
    /\ \A j, k \in VnetUpserts :
          (/\ log[j].position.si = log[k].position.si
           /\ log[j].position.vi = log[k].position.vi
           /\ log[j].position.ai = log[k].position.ai) => j = k
    /\ \A j, k \in SubnetUpserts :
          SameSubnet(log[j].position, log[k].position) => j = k
    /\ \A j, k \in Events("synced") :
          (/\ SameSubnet(log[j].position, log[k].position)
           /\ log[j].position.di = log[k].position.di) => j = k

\* the part of C20 about the address spaces alone
C20_AddressSpacesOnce ==
    \A j, k \in VnetUpserts :
        (/\ log[j].position.si = log[k].position.si
         /\ log[j].position.vi = log[k].position.vi
         /\ log[j].position.ai = log[k].position.ai) => j = k

\* the log lines about one subnet of the argument
SubnetLines(si, vi, ni) ==
    {k \in SubnetUpserts \cup Events("synced") :
        SameSubnet(log[k].position, [si |-> si, vi |-> vi, ni |-> ni])}
SubnetAt(si, vi, ni) == all_network_data[si].vnets[vi].subnets[ni]

\* C24: a run passes a subnet without address prefix without raising: no
\* prefix is upserted for it and none of its devices is synced, while every
\* subnet with an address prefix is upserted and its devices are synced.
C24_SubnetWithoutPrefixSkipped ==
    /\ pc # "failed"
    /\ Done =>
         \A si \in DOMAIN all_network_data :
         \A vi \in DOMAIN all_network_data[si].vnets :
         \A ni \in DOMAIN all_network_data[si].vnets[vi].subnets :
             IF SubnetAt(si, vi, ni).address_prefix = <<>>
             THEN SubnetLines(si, vi, ni) = {}
             ELSE /\ \E k \in SubnetLines(si, vi, ni) : log[k].op = "upsert"
                  /\ \A di \in DOMAIN SubnetAt(si, vi, ni).devices :
                        \E k \in SubnetLines(si, vi, ni) :
                            log[k].op = "synced" /\ log[k].position.di = di

\* a finished run whose first subnet has no address prefix and holds a
\* device, and whose second subnet was upserted
C24_Witness ==
    /\ Done /\ run = 1
    /\ \E si \in DOMAIN all_network_data :
       \E vi \in DOMAIN all_network_data[si].vnets :
          /\ Len(all_network_data[si].vnets[vi].subnets) >= 2
          /\ SubnetAt(si, vi, 1).address_prefix = <<>>
          /\ SubnetAt(si, vi, 1).devices # <<>>
          /\ SubnetLines(si, vi, 2) # {}

\* the upsert of an address-space entry, of a subnet, and the line of a
\* device in the log of the run
VnetUpsertAt(si, vi, ai) ==
    {k \in VnetUpserts : /\ log[k].position.si = si /\ log[k].position.vi = vi
                         /\ log[k].position.ai = ai
                         /\ log[k].key = all_network_data[si].vnets[vi].address_space[ai]}
SubnetUpsertAt(si, vi, ni) ==
    {k \in SubnetUpserts : /\ SameSubnet(log[k].position, [si |-> si, vi |-> vi, ni |-> ni])
                           /\ <<log[k].key>> = SubnetAt(si, vi, ni).address_prefix}
DeviceLineAt(si, vi, ni, di) ==
    {k \in Events("synced") :
        /\ SameSubnet(log[k].position, [si |-> si, vi |-> vi, ni |-> ni])
        /\ log[k].position.di = di
        /\ log[k].key = SubnetAt(si, vi, ni).devices[di].id}

\* everything of the argument went through the run, in the order network
\* prefix, subnet prefix, devices of the subnet
RunComplete ==
    \A si \in DOMAIN all_network_data :
    \A vi \in DOMAIN all_network_data[si].vnets :
        /\ \A ai \in DOMAIN all_network_data[si].vnets[vi].address_space :
              VnetUpsertAt(si, vi, ai) # {}
        /\ \A ni \in DOMAIN all_network_data[si].vnets[vi].subnets :
              SubnetAt(si, vi, ni).address_prefix # <<>> =>
                 /\ \E k \in SubnetUpsertAt(si, vi, ni) :
                       \E j \in VnetUpserts :
                           /\ j < k
                           /\ log[j].position.si = si /\ log[j].position.vi = vi
                           /\ log[j].id = log[k].parent
                 /\ \A di \in DOMAIN SubnetAt(si, vi, ni).devices :
                       \E k \in DeviceLineAt(si, vi, ni, di) :
                           \E j \in SubnetUpsertAt(si, vi, ni) : j < k

\* C35: when no request fails a run reaches Done, and by then every
\* address-space entry of every network, every subnet with an address prefix
\* and every device of those subnets has been upserted, the network prefix
\* before the subnet prefix and the subnet prefix before its devices.
C35_RunReachesDoneComplete ==
    (pc = "start") ~> (Done /\ RunComplete)

\* a second run is complete over two subscriptions, a network with two
\* address spaces and a device
C35_Witness ==
    /\ Done /\ run = 2 /\ RunComplete
    /\ Cardinality(Events("synced")) >= 2
    /\ \E si \in DOMAIN all_network_data :
       \E vi \in DOMAIN all_network_data[si].vnets :
           Len(all_network_data[si].vnets[vi].address_space) = 2

\* C26: within a run at most one lookup and at most one create are sent
\* for a tag slug.
C26_OneRoundTripPerTagSlug ==
    \A j, k \in Events("get") \cup Events("create") :
        (/\ log[j].table = "tags" /\ log[k].table = "tags"
         /\ log[j].op = log[k].op
         /\ log[j].key = log[k].key) => j = k

\* the part of C26 about the creates alone
C26_OneCreatePerTagSlug ==
    \A j, k \in Events("create") :
        (/\ log[j].table = "tags" /\ log[k].table = "tags"
         /\ log[j].key = log[k].key) => j = k

(***************************************************************************)
(* Claims about a run in which a request fails                             *)
(***************************************************************************)
Failed == pc = "failed"
\* the subscriptions of which a request was sent after the tags of the run
Touched(si) ==
    \E k \in Events("upsert") \cup Events("synced") : log[k].position.si = si
InSubscriptions == locals.sync_tag_dict # <<>>

\* C21: when a request raises while a subscription is processed, every
\* later subscription of the run that has a network is processed all the
\* same.
C21_FailureContainedToSubscription ==
    (Failed /\ InSubscriptions) =>
        \A sj \in DOMAIN all_network_data :
            (sj > idx.si /\ all_network_data[sj].vnets # <<>>) => Touched(sj)

\* the lookups of the lookup-or-create helpers that failed
HelperTables == {"tags", "prefixes", "device_types", "device_roles", "sites"}
FailedLookups ==
    {k \in Events("failed") : /\ log[k].request \in {"get", "filter"}
                              /\ log[k].table \in HelperTables}
CreateFollows(k) ==
    \E j \in DOMAIN log :
        /\ j > k
        /\ log[j].op \in {"create", "create_refused"}
        /\ log[j].table = log[k].table
        /\ log[j].key = log[k].key

\* C25: when the lookup of a lookup-or-create helper fails, the helper goes
\* on to create the record and the error does not reach the caller.
C25_FailedLookupProceedsToCreate ==
    \A k \in FailedLookups : CreateFollows(k) /\ ~(Failed /\ k = Len(log))

\* the part of C25 that holds: the helpers of tags, prefixes and sites for
\* every error, those of device types and roles for a RequestError
C25_SwallowedLookupErrors ==
    \A k \in FailedLookups :
        (\/ log[k].table \in {"tags", "prefixes", "sites"}
         \/ fault.kind = "RequestError") => CreateFollows(k)

\* the records a field of a record refers to exist
Refers(id, table) == id \in DOMAIN nb[table]
ReferentiallyConsistent ==
    /\ \A i \in DOMAIN nb.prefixes :
          nb.prefixes[i].parent # NoId => Refers(nb.prefixes[i].parent, "prefixes")
    /\ \A i \in DOMAIN nb.interfaces : Refers(nb.interfaces[i].device, "devices")
    /\ \A i \in DOMAIN nb.devices :
          /\ Refers(nb.devices[i].device_type, "device_types")
          /\ Refers(nb.devices[i].role, "device_roles")
          /\ Refers(nb.devices[i].site, "sites")
    /\ \A i \in DOMAIN nb.device_types :
          Refers(nb.device_types[i].manufacturer, "manufacturers")
    /\ \A i \in DOMAIN nb.ip_addresses :
          nb.ip_addresses[i].assigned_object_id # NoId
          => Refers(nb.ip_addresses[i].assigned_object_id, "interfaces")

\* C29: in every state of a run, the state a failing request leaves
\* included, every reference of a committed record is to an existing record.
C29_ReferentiallyConsistent == ReferentiallyConsistent

\* the run stopped on a failing request after a subnet prefix, a device and
\* an interface were committed
C29_Witness ==
    /\ Failed /\ run = 1
    /\ log[Len(log)].op = "failed" /\ log[Len(log)].table = "ip_addresses"
    /\ \E i \in DOMAIN nb.prefixes : nb.prefixes[i].parent # NoId
    /\ \E i \in DOMAIN nb.interfaces :
          nb.devices[nb.interfaces[i].device].name = locals.device_name

(***************************************************************************)
(* Claims about the device-name suffix retry                               *)
(***************************************************************************)
RetryEnded == rpc \in {"created", "raised"}
CreateRequests ==
    {k \in DOMAIN log : log[k].table = "devices"
                         /\ log[k].op \in {"create", "create_refused", "create_failed"}}
TakenInSite == {i \in DOMAIN nb.devices : nb.devices[i].site = r_fields.site}

\* C18: the create and its retry under suffixed names end, with a created
\* device or with a raised error, whatever names are taken in the site and
\* for every max_name_length >= 1.
C18_RetryTerminates == <>RetryEnded

\* the number of create requests stays within the number of names taken in
\* the site plus one, and the loop never reaches the cap on the suffix
C18_AttemptsBounded ==
    /\ Cardinality(CreateRequests) <= Cardinality(TakenInSite) + 1
    /\ r_suffix < MaxSuffix

\* a device was created under a two-digit suffix after every shorter name
\* was refused
C18_Witness ==
    /\ rpc = "created" /\ r_suffix >= 10
    /\ Cardinality(Events("create_refused")) = r_suffix
    /\ nb.devices[Len(nb.devices)].name = SuffixedName(r_fields.name, r_suffix)
    /\ mapping.max_name_length = 1

\* the requests of the retry loop: entry k + 1 of the log is the create
\* under suffix k
SuffixRequests == {k \in DOMAIN log : k >= 2}
EndsWith(name, tail) ==
    Len(name) >= Len(tail) /\ SubSeq(name, Len(name) - Len(tail) + 1, Len(name)) = tail

\* C34: every name the suffix retry submits has at most max_name_length
\* characters and ends with '-<suffix>', and the names of successive suffixes
\* differ from each other, for every base name and max_name_length >= 1.
C34_SuffixedNamesFitAndDiffer ==
    \A k \in SuffixRequests :
        /\ Len(log[k].key) <= mapping.max_name_length
        /\ EndsWith(log[k].key, <<"-">> \o str(k - 1))
        /\ \A j \in SuffixRequests : j # k => log[j].key # log[k].key

\* the part of C34 that holds: the names end with their suffix and differ,
\* and fit whenever max_name_length leaves room for '-<suffix>'
C34_SuffixKeptWhole ==
    \A k \in SuffixRequests :
        /\ EndsWith(log[k].key, <<"-">> \o str(k - 1))
        /\ \A j \in SuffixRequests : j # k => log[j].key # log[k].key
        /\ mapping.max_name_length >= Len(str(k - 1)) + 1
              => Len(log[k].key) <= mapping.max_name_length

\* the records of the site that hold the computed name, the one the run
\* created left aside: a record another writer made after the run's lookup
HeldByAnother ==
    {i \in TakenInSite : /\ nb.devices[i].name = r_fields.name
                         /\ ~(rpc = "created" /\ i = Len(nb.devices))}

\* C30: when another writer has created the device between the run's lookup
\* and its create, the run ends on that record and creates no second record
\* for the discovered device.
C30_ConvergesOnExistingRecord ==
    (RetryEnded /\ HeldByAnother # {} /\ r_fault = 0) => Events("create") = {}

(***************************************************************************)
(* Claims about get_or_create_prefix                                       *)
(***************************************************************************)
UpsertReturned == upc = "returned"
MatchesBefore ==
    {i \in DOMAIN nb_before.prefixes :
        nb_before.prefixes[i].prefix = up_call.prefix_value}
SubscriptionGiven == up_call.subscription.name # <<>> /\ up_call.subscription.id # ""

\* the record holds every value the call provides
AsProvided(rec) ==
    /\ \A k \in DOMAIN up_call.defaults : rec[k] = up_call.defaults[k]
    /\ SubscriptionGiven =>
          /\ rec.custom_fields.azure_subscription =
                 AzureSubscriptionValue(up_call.subscription.name, up_call.subscription.id)
          /\ rec.custom_fields.azure_subscription_url =
                 AzureSubscriptionUrl(up_call.subscription.id)
\* the fields the call provides no value for are those of the old record
RestKept(rec, old) ==
    /\ \A k \in DOMAIN old \ (DOMAIN up_call.defaults \cup {"custom_fields"}) :
          rec[k] = old[k]
    /\ ~SubscriptionGiven => rec.custom_fields = old.custom_fields
OthersKept(i) ==
    /\ Len(nb.prefixes) = Len(nb_before.prefixes)
    /\ \A j \in DOMAIN nb.prefixes \ {i} : nb.prefixes[j] = nb_before.prefixes[j]

\* C13: with exactly one record of the CIDR, the call issues no update when
\* no provided field differs from the record, and otherwise exactly one
\* update after which every provided field of the record has the provided
\* value.
C13_SingleMatchDiffAndUpdate ==
    (UpsertReturned /\ Cardinality(MatchesBefore) = 1) =>
        \A i \in MatchesBefore :
            /\ ~up_result.raised /\ ~up_result.created
            /\ Events("create") = {}
            /\ OthersKept(i)
            /\ IF AsProvided(nb_before.prefixes[i])
               THEN Events("save") = {} /\ nb = nb_before
               ELSE /\ Cardinality(PrefixSaves) = 1
                    /\ AsProvided(nb.prefixes[i])
                    /\ RestKept(nb.prefixes[i], nb_before.prefixes[i])
                    /\ up_result.ret = <<nb.prefixes[i]>>

\* one record, which differs from the call in its custom fields only, was
\* updated
C13_Witness ==
    /\ UpsertReturned /\ Cardinality(MatchesBefore) = 1
    /\ SubscriptionGiven
    /\ Cardinality(PrefixSaves) = 1
    /\ \A i \in MatchesBefore :
          /\ \A k \in DOMAIN up_call.defaults :
                nb_before.prefixes[i][k] = up_call.defaults[k]
          /\ nb_before.prefixes[i].custom_fields = NoSubscriptionFields
          /\ nb.prefixes[i].custom_fields = SubDevFields

CreateRefused == Events("create_refused") # {}

\* C15: when the lookup finds no record and the create is refused as a
\* duplicate, the call looks the prefix up again and returns the record that
\* exists by then with created=false; the error does not reach the caller.
C15_DuplicateCreateRecovered ==
    (UpsertReturned /\ MatchesBefore = {} /\ CreateRefused) =>
        /\ ~up_result.raised /\ ~up_result.created
        /\ Events("create") = {}
        /\ Cardinality(Events("filter")) = 2
        /\ up_result.ret[1].prefix = up_call.prefix_value
        /\ up_result.ret[1].id \in DOMAIN nb.prefixes \ DOMAIN nb_before.prefixes
        /\ nb.prefixes[up_result.ret[1].id] = up_result.ret[1]

\* another writer created the prefix between the lookup and the create, and
\* the call returned that writer's record
C15_Witness ==
    /\ UpsertReturned /\ MatchesBefore = {} /\ CreateRefused
    /\ ~up_result.raised
    /\ up_result.ret[1].description = <<"racing">>
    /\ Len(nb.prefixes) = Len(nb_before.prefixes) + 1

RowDone == upc = "row_done"
CsvMatchesBefore ==
    IF csv_call.row.prefix = <<>> THEN {}
    ELSE {i \in DOMAIN nb_before.prefixes :
             nb_before.prefixes[i].prefix = csv_call.row.prefix[1]}
RowSummary ==
    make_summary(csv_call.row.prefix[1], to_int(csv_call.row.subnets, 0),
                 to_int(csv_call.row.used, 0), to_int(csv_call.row.avail, 0))

\* the CSV updater on a CIDR with several records: all of them written, or,
\* in strict mode, none and the CIDR counted as skipped
C16_CsvUpdatesAllOrSkips ==
    (RowDone /\ Cardinality(CsvMatchesBefore) > 1 /\ ~csv_call.args.dry_run) =>
        IF csv_call.args.strict_unique
        THEN /\ nb = nb_before
             /\ csv_counters = [NoCounters EXCEPT !.skipped = 1]
        ELSE /\ \A i \in CsvMatchesBefore :
                   nb.prefixes[i].custom_fields.list_available_ips = RowSummary
             /\ csv_counters.skipped = 0

\* the create requests of the call, accepted or refused
PrefixCreates ==
    {k \in DOMAIN log : /\ log[k].op \in {"create", "create_refused"}
                        /\ log[k].table = "prefixes"}
PrefixCreateFailed ==
    \E k \in Events("failed") : log[k].request = "create" /\ log[k].table = "prefixes"
SaveFailed ==
    \E k \in Events("failed") : log[k].request = "save" /\ log[k].table = "prefixes"
LookupReturned ==
    \E k \in Events("filter") : k = 1 /\ log[k].table = "prefixes"

\* C39: get_or_create_prefix sends no create for a CIDR of which its lookup
\* returned a record, also when the save of the update of that record
\* fails, and then the failure is not handed to the caller as a done upsert.
C39_NoCreateAfterFoundRecord ==
    (UpsertReturned /\ LookupReturned /\ MatchesBefore # {}) =>
        /\ PrefixCreates = {}
        /\ ~PrefixCreateFailed
        /\ SaveFailed => up_result.raised

\* the part of C39 that holds: no create follows a lookup that returned a
\* record unless the save of that record failed
C39_NoCreateAfterUpdatedRecord ==
    (UpsertReturned /\ LookupReturned /\ MatchesBefore # {} /\ ~SaveFailed) =>
        PrefixCreates = {} /\ ~PrefixCreateFailed

\* the requests of the row that write
WriteRequests ==
    {k \in DOMAIN log : log[k].op \in {"update", "save", "create"}}

\* C33: with --dry-run the CSV updater writes nothing: whatever the row and
\* the inventory, no prefix record changes, no writing request is sent and
\* the count of updated records is 0.
C33_DryRunWritesNothing ==
    (RowDone /\ csv_call.args.dry_run) =>
        /\ nb = nb_before
        /\ WriteRequests = {}
        /\ csv_counters.updated = 0

\* a dry run over a row whose prefix has a record with another summary, which
\* a run without --dry-run would have written
C33_Witness ==
    /\ RowDone
    /\ csv_call.args.dry_run
    /\ ~csv_call.args.strict_unique
    /\ \E i \in CsvMatchesBefore :
          \/ "list_available_ips" \notin DOMAIN nb_before.prefixes[i].custom_fields
          \/ nb_before.prefixes[i].custom_fields.list_available_ips # RowSummary

\* C16: when several records of a CIDR exist, the upsert updates every one
\* of them, or none in strict mode, where the CIDR is counted as skipped;
\* stated of the CSV updater and of get_or_create_prefix.
C16_AllMatchesUpdated ==
    /\ C16_CsvUpdatesAllOrSkips
    /\ (UpsertReturned /\ Cardinality(MatchesBefore) > 1) =>
           \A i \in MatchesBefore : AsProvided(nb.prefixes[i])

(***************************************************************************)
(* Claims about the filter pipeline                                        *)
(***************************************************************************)
Filtered == fpc \in {"filtered", "refiltered"}
ListedCfg == cfg_vnet_data # None
InList(list, id) == \E k \in DOMAIN list : list[k].id = id

\* C5: a network whose region is in the region exclude set is absent from the
\* filtered output (and so are its subnets, which only exist inside it),
\* whatever its name, its resource group and the other sets hold; in both
\* filter implementations.
C5_ExcludedRegionAbsent ==
    \A i \in DOMAIN discovered :
        discovered[i].location \in config.regions.exclude =>
            /\ Filtered => ~InList(filtered_vnets, discovered[i].id)
            /\ ListedCfg => ~InList(cfg_vnet_data, discovered[i].id)

\* the excluded network is in the include set, in an included resource group,
\* matches an include pattern and has a matching subnet, and is dropped
C5_Witness ==
    /\ fpc = "filtered" /\ ListedCfg
    /\ \E i \in DOMAIN discovered :
        /\ discovered[i].location \in config.regions.exclude
        /\ discovered[i].location \in config.regions.include
        /\ discovered[i].resource_group \in config.resource_groups.include
        /\ discovered[i].resource_group \notin config.resource_groups.exclude
        /\ config.resource_names.exclude_patterns = {}
        /\ \E p \in config.resource_names.include_patterns :
              /\ PatternMatch(p, discovered[i].name)
              /\ \E j \in DOMAIN discovered[i].subnets :
                    PatternMatch(p, discovered[i].subnets[j].name)
        /\ filtered_vnets = <<>> /\ cfg_vnet_data = <<>>

\* a name matched by an include pattern and by an exclude pattern
BothMatch(name) ==
    /\ \E p \in config.resource_names.include_patterns : PatternMatch(p, name)
    /\ \E p \in config.resource_names.exclude_patterns : PatternMatch(p, name)
BothSearch(name) ==
    /\ \E p \in config.resource_names.include_patterns : PatternSearch(p, name)
    /\ \E p \in config.resource_names.exclude_patterns : PatternSearch(p, name)
BothRegion(vnet) ==
    vnet.location \in config.regions.include \cap config.regions.exclude
BothResourceGroup(vnet) ==
    vnet.resource_group \in
        config.resource_groups.include \cap config.resource_groups.exclude

\* C6: on each axis a resource matching both the include set and the exclude
\* set is dropped: no such network and no such subnet is in the output.
C6_ExcludeOverridesInclude ==
    \A i \in DOMAIN discovered :
        LET vnet == discovered[i] IN
        /\ Filtered =>
            /\ (BothRegion(vnet) \/ BothResourceGroup(vnet) \/ BothMatch(vnet.name))
                  => ~InList(filtered_vnets, vnet.id)
            /\ \A j \in DOMAIN vnet.subnets :
                  BothMatch(vnet.subnets[j].name) =>
                      \A k \in DOMAIN filtered_vnets :
                          ~InList(filtered_vnets[k].subnets, vnet.subnets[j].id)
        /\ ListedCfg =>
            ((BothRegion(vnet) \/ BothResourceGroup(vnet) \/ BothSearch(vnet.name))
                  => ~InList(cfg_vnet_data, vnet.id))

\* a network passing the region and resource-group axes whose name matches an
\* include and an exclude pattern has been dropped
C6_Witness ==
    /\ fpc = "filtered"
    /\ \E i \in DOMAIN discovered :
        /\ BothMatch(discovered[i].name)
        /\ ~BothRegion(discovered[i]) /\ ~BothResourceGroup(discovered[i])
        /\ RegionPasses(config, discovered[i])
        /\ ResourceGroupPasses(config, discovered[i])
        /\ ~InList(filtered_vnets, discovered[i].id)

\* the reasons for which the code may drop a network, none of which is an
\* empty include set
RegionReason(vnet) ==
    \/ config.regions.include # {} /\ vnet.location \notin config.regions.include
    \/ vnet.location \in config.regions.exclude
ResourceGroupReason(vnet) ==
    \/ /\ config.resource_groups.include # {}
       /\ vnet.resource_group \notin config.resource_groups.include
    \/ vnet.resource_group \in config.resource_groups.exclude
NameReason(name, Hit(_, _)) ==
    \/ /\ config.resource_names.include_patterns # {}
       /\ \A p \in config.resource_names.include_patterns : ~Hit(p, name)
    \/ \E p \in config.resource_names.exclude_patterns : Hit(p, name)
NoFilterSet ==
    /\ config.regions.include = {} /\ config.regions.exclude = {}
    /\ config.resource_groups.include = {} /\ config.resource_groups.exclude = {}
    /\ config.resource_names.include_patterns = {}
    /\ config.resource_names.exclude_patterns = {}

\* C7: an empty include set restricts nothing: a dropped network has a
\* non-empty include set it is not in, an exclude match, or no surviving
\* subnet; with all six sets empty every network with at least one subnet is
\* kept with all of its subnets.
C7_EmptyIncludeNoRestriction ==
    \A i \in DOMAIN discovered :
        LET vnet == discovered[i] IN
        /\ (Filtered /\ ~InList(filtered_vnets, vnet.id)) =>
              \/ RegionReason(vnet) \/ ResourceGroupReason(vnet)
              \/ NameReason(vnet.name, PatternMatch)
              \/ \A j \in DOMAIN vnet.subnets :
                    NameReason(vnet.subnets[j].name, PatternMatch)
        /\ (ListedCfg /\ ~InList(cfg_vnet_data, vnet.id)) =>
              \/ RegionReason(vnet) \/ ResourceGroupReason(vnet)
              \/ NameReason(vnet.name, PatternSearch)
        /\ (NoFilterSet /\ vnet.subnets # <<>>) =>
              /\ Filtered => \E k \in DOMAIN filtered_vnets :
                                filtered_vnets[k] = vnet
              /\ ListedCfg => \E k \in DOMAIN cfg_vnet_data :
                                cfg_vnet_data[k] = vnet

\* every include set is empty, an exclude set is not, and a network with two
\* subnets came through with both
C7_Witness ==
    /\ fpc = "filtered" /\ ListedCfg
    /\ config.regions.include = {} /\ config.resource_groups.include = {}
    /\ config.resource_names.include_patterns = {}
    /\ config.regions.exclude # {}
    /\ \E i \in DOMAIN discovered :
        /\ Len(discovered[i].subnets) = 2
        /\ filtered_vnets = <<discovered[i]>>
        /\ cfg_vnet_data = <<discovered[i]>>

\* C8: no network of the filtered topology has zero subnets, and the subnets
\* of a network that came through are exactly its subnets that pass the name
\* patterns; stated of the output of both scripts.
C8_NoNetworkWithoutSubnets ==
    /\ Filtered =>
        \A k \in DOMAIN filtered_vnets :
            /\ filtered_vnets[k].subnets # <<>>
            /\ \A i \in DOMAIN discovered :
                  discovered[i].id = filtered_vnets[k].id =>
                      filtered_vnets[k].subnets =
                          SelectSeq(discovered[i].subnets, LAMBDA sn :
                              ~NameReason(sn.name, PatternMatch))
    /\ ListedCfg =>
        \A k \in DOMAIN cfg_vnet_data :
            /\ cfg_vnet_data[k].subnets # <<>>
            /\ \A i \in DOMAIN discovered :
                  discovered[i].id = cfg_vnet_data[k].id =>
                      cfg_vnet_data[k].subnets =
                          SelectSeq(discovered[i].subnets, LAMBDA sn :
                              ~NameReason(sn.name, PatternSearch))

\* C9: apply_filters leaves its argument as it was (every network of the list
\* still has the subnets it was listed with), and a second call on the same
\* list and configuration returns the same list.
C9_FilterIsPure ==
    /\ Filtered => vnets_data = get_vnets_and_subnets(discovered)
    /\ fpc = "refiltered" => refiltered_vnets = filtered_vnets

(***************************************************************************)
(* Claims about truncate_name                                              *)
(***************************************************************************)
\* what the claim says of a result r for a name and a maximum
TruncatedAsClaimed(r, name, max_length) ==
    /\ IsPrefixOf(r, name)
    /\ \A i \in DOMAIN r : r[i] # "."
    /\ Len(r) <= max_length
    /\ \/ Len(r) = Len(name)
       \/ Len(r) = max_length
       \/ name[Len(r) + 1] = "."

server01_internal_example ==
    <<"s", "e", "r", "v", "e", "r", "0", "1", ".",
      "i", "n", "t", "e", "r", "n", "a", "l", ".",
      "e", "x", "a", "m", "p", "l", "e">>
server01 == <<"s", "e", "r", "v", "e", "r", "0", "1">>

\* C10: truncate_name returns the part of the name before its first '.', cut
\* to at most max_length characters: a prefix of the name with no '.', no
\* longer than max_length, that stops only at the end of the name, at
\* max_length or right before a '.'; 'server01.internal.example' with 10
\* gives 'server01'.  Both scripts' truncate_name.
C10_TruncateName ==
    /\ tpc = "truncated" =>
          /\ TruncatedAsClaimed(tn_result, tn_name, tn_max)
          /\ TruncatedAsClaimed(tn_result_cfg, tn_name, tn_max)
    /\ truncate_name(server01_internal_example, 10) = server01
    /\ truncate_name_cfg(server01_internal_example, [max_name_length |-> 10])
          = server01

\* both rules act: the '.' rule leaves "ab", the length rule cuts it to "a"
C10_Witness ==
    /\ tpc = "truncated"
    /\ tn_name = <<"a", "b", ".", "a">> /\ tn_max = 1
    /\ tn_result = <<"a">> /\ tn_result_cfg = <<"a">>

(***************************************************************************)
(* Claims about the environment token                                      *)
(***************************************************************************)
\* the tokens in the order of their precedence
EnvTokens == << <<"d", "e", "v">>, <<"h", "m", "l">>, <<"u", "a", "t">>, <<"p", "r", "d">> >>

\* the positions of a name at which a token stands, in any mix of cases
Occurrences(token, name) ==
    {i \in 1..(Len(name) - Len(token) + 1) :
        \A k \in DOMAIN token : LowerChar(name[i + k - 1]) = token[k]}

TokensIn(name) == {n \in DOMAIN EnvTokens : Occurrences(EnvTokens[n], name) # {}}

\* C27: the environment of a subscription is the first of dev, hml, uat, prd
\* that occurs in its name, whatever the case, the place in the name and the
\* length of the name; a name holding none of them has no environment.
C27_FirstTokenInPrecedenceOrder ==
    epc = "classified" =>
        IF TokensIn(e_name) = {} THEN e_slug = <<>>
        ELSE \E n \in TokensIn(e_name) :
                /\ e_slug = EnvTokens[n]
                /\ \A m \in TokensIn(e_name) : n <= m

\* a name in which prd stands before dev is classified as dev
C27_Witness ==
    /\ epc = "classified"
    /\ e_slug = <<"d", "e", "v">>
    /\ \E i \in Occurrences(<<"p", "r", "d">>, e_name) :
          \A j \in Occurrences(<<"d", "e", "v">>, e_name) : i < j
(***************************************************************************)
(* Claims about main                                                       *)
(***************************************************************************)
SettingsMissing ==
    \/ m_config.netbox.url \in {Absent, None, ""}
    \/ m_config.netbox.token \in {Absent, None, ""}

Enumerates == mpc # "idle" /\ m_config.script \in {AzureSync, WithConfig} /\ ~SettingsMissing

\* the subscriptions whose enumeration raises
FailingSubscriptions ==
    {si \in DOMAIN m_plan.shape :
        \/ m_plan.outcomes[si] = "vnets_fail"
        \/ m_plan.outcomes[si] = "devices_fail" /\ m_config.script = AzureSync}

Enumerated(si) ==
    \E k \in DOMAIN azure :
        /\ azure[k].call = "vnets"
        /\ azure[k].subscription_id = m_plan.shape[si].subscription_id

Collected(si) ==
    \E k \in DOMAIN all_network_data :
        all_network_data[k].subscription_id = m_plan.shape[si].subscription_id

\* C22: a subscription whose enumeration of networks or devices fails
\* contributes no networks, and the run goes on: every other subscription is
\* enumerated and handed to the synchronisation.
C22_EnumerationFailureSkipsSubscription ==
    (Enumerates /\ mpc = "exited" /\ FailingSubscriptions # {}) =>
        \A si \in DOMAIN m_plan.shape :
            IF si \in FailingSubscriptions THEN ~Collected(si)
            ELSE Enumerated(si) /\ Collected(si)

\* the part of C22 that holds: nothing of a failing subscription is collected
\* or written
C22_FailedContributesNothing ==
    Enumerates =>
        \A si \in FailingSubscriptions :
            /\ ~Collected(si)
            /\ \A k \in Events("upsert") :
                  \A vi \in DOMAIN m_plan.shape[si].vnets :
                      log[k].key \notin Range(m_plan.shape[si].vnets[vi].address_space)

\* C23: with the URL or the token of NetBox missing or empty the run ends
\* with a non-zero exit status before any call to the cloud and before any
\* request to NetBox.
C23_MissingSettingsAbortFirst ==
    (mpc # "idle" /\ SettingsMissing) =>
        /\ mpc \in {"start", "loaded", "exited"}
        /\ azure = <<>>
        /\ log = <<>>
        /\ mpc = "exited" => exit_code \in 1..255

\* config/azure-sync.py has ended so with a URL and an empty token
C23_Witness ==
    /\ mpc = "exited"
    /\ m_config.netbox.url = "set"
    /\ m_config.netbox.token = ""
    /\ m_config.script = AzureSync
    /\ exit_code = 1

Enabled(field) == m_config.custom_fields[field].enabled

FieldCreated(field) ==
    \E k \in Events("create") : log[k].table = "custom_fields" /\ log[k].key = field

FieldDefined(field) ==
    \E i \in DOMAIN nb.custom_fields : nb.custom_fields[i].name = field

\* C28: each of the two custom fields is governed by its own switch: it is
\* created only when enabled (and then exists), and written on a prefix
\* only when enabled.
C28_FieldsGatedIndependently ==
    (Enumerates /\ mpc = "exited" /\ FailingSubscriptions = {}) =>
        \A field \in PrefixFields :
            /\ FieldCreated(field) => Enabled(field)
            /\ Enabled(field) => FieldDefined(field)
            /\ ~Enabled(field) =>
                  \A i \in DOMAIN nb.prefixes : nb.prefixes[i].custom_fields[field] = <<>>

\* the part of C28 that holds of config/azure-sync.py: the set-up creates a
\* field only under its own switch
C28_SetupGatedIndependently ==
    (Enumerates /\ m_config.script = AzureSync /\ mpc \in {"sync", "exited"}
                /\ FailingSubscriptions = {}) =>
        \A field \in PrefixFields :
            /\ FieldCreated(field) => Enabled(field)
            /\ Enabled(field) => FieldDefined(field)

\* the devices discovery reported, and the lines of the run about them
ReportedIds == {m_plan.reported[r].device.id : r \in DOMAIN m_plan.reported}
SyncedIds == {log[k].key : k \in Events("synced")}
SyncEnded == m_config.script = AzureSync /\ mpc = "exited" /\ pc = "done"

\* the device, interface and address records a run on an inventory without
\* devices left behind, by the line of the log that names them
RecordsFrom(ids) ==
    /\ \A d \in DOMAIN nb.devices :
          \E k \in Events("synced") : log[k].key \in ids /\ log[k].nb_device = nb.devices[d].id
    /\ \A f \in DOMAIN nb.interfaces :
          \E k \in Events("synced") : log[k].key \in ids /\ log[k].interface = nb.interfaces[f].id
    /\ \A a \in DOMAIN nb.ip_addresses :
          \E k \in Events("synced") : log[k].key \in ids /\ log[k].ip_address = nb.ip_addresses[a].id

\* C38: every device, interface and address record a run creates corresponds
\* to a device that discovery reported, also when discovery reported no
\* device at all for a subscription.
C38_OnlyReportedDevicesRecorded ==
    SyncEnded => RecordsFrom(ReportedIds)

\* what holds instead: every record corresponds to a reported device or to
\* the placeholder main adds for a subscription without devices
C38_OnlyReportedOrPlaceholder ==
    SyncEnded => RecordsFrom(ReportedIds \cup {fake_device.id})

\* the settings of config['azure']['subscriptions'] as the file gave them
SeveralSet == m_config.file = "ok" /\ Cardinality(m_config.subscriptions) > 1
First(keys) ==
    SubscriptionKeys[CHOOSE i \in DOMAIN SubscriptionKeys :
                        /\ SubscriptionKeys[i] \in keys
                        /\ \A j \in 1..(i - 1) : SubscriptionKeys[j] \notin keys]
SeveralSetWarned == \E k \in DOMAIN warnings : warnings[k] # NoDevicesFound

\* C31: with more than one of process_all, specific_id and management_group
\* set, the subscriptions are chosen by the first of them in that order, and
\* a warning that several are set is logged.
C31_PriorityAndWarning ==
    (SeveralSet /\ subscriptions # NotSelected) =>
        /\ subscriptions.by = First(m_config.subscriptions)
        /\ SeveralSetWarned

\* the part of C31 that holds: config/azure-sync.py follows the order
C31_AzureSyncFollowsOrder ==
    (SeveralSet /\ subscriptions # NotSelected /\ m_config.script = AzureSync) =>
        subscriptions.by = First(m_config.subscriptions)

\* C32: with the configuration file missing or not parsable the script exits
\* with an error, and sends no call to the cloud and no request to NetBox.
C32_UnusableFileAbortsFirst ==
    (mpc # "idle" /\ m_config.file # "ok") =>
        /\ mpc \in {"start", "exited"}
        /\ azure = <<>>
        /\ log = <<>>
        /\ mpc = "exited" => exit_code \in 1..255

\* the part of C32 that holds: config/azure-sync.py with either file, and
\* both scripts with a file that is not YAML
C32_AbortsUnlessDefaulted ==
    (/\ mpc # "idle" /\ m_config.file # "ok"
     /\ (m_config.script = AzureSync \/ m_config.file = "unparsable")) =>
        /\ mpc \in {"start", "exited"}
        /\ azure = <<>>
        /\ log = <<>>
        /\ mpc = "exited" => exit_code \in 1..255

(***************************************************************************)
(* Claims about the walk over a management group                           *)
(***************************************************************************)
\* every node strictly between the root and the node is a management group
ThroughGroups(node) ==
    \A d \in 1..(Len(node) - 1) : mg_details[SubSeq(node, 1, d)] = ManagementGroupType
ReachableSubscriptions ==
    {node \in DOMAIN mg_details \ {Root} :
        mg_details[node] = SubscriptionType /\ ThroughGroups(node)}

\* depth-first child order of two nodes neither of which is above the other:
\* at the first position where they part, the first takes the elder child
Before(p, q) ==
    \E d \in 1..Len(p) :
        /\ d <= Len(q)
        /\ SubSeq(p, 1, d - 1) = SubSeq(q, 1, d - 1)
        /\ p[d] < q[d]

ExactlyTheSubscriptions ==
    /\ Range(mg_subscriptions) = ReachableSubscriptions
    /\ Len(mg_subscriptions) = Cardinality(ReachableSubscriptions)
    /\ \A i, j \in DOMAIN mg_subscriptions :
          i < j => Before(mg_subscriptions[i], mg_subscriptions[j])

\* C37: the walk ends on every tree, and the list it leaves holds exactly the
\* subscription nodes reachable from the root through management groups,
\* each once, in depth-first child order.
C37_WalkReturnsReachableSubscriptions ==
    (gpc = "call") ~> (gpc = "returned" /\ ExactlyTheSubscriptions)

\* the walk returned from a tree whose first child, of another type, has a
\* subscription below it, and whose second child is a group that holds a
\* subscription: only the latter is listed
C37_Witness ==
    /\ gpc = "returned"
    /\ ExactlyTheSubscriptions
    /\ mg_subscriptions = << <<2, 1>> >>
    /\ mg_details[<<1>>] = OtherType
    /\ <<1, 1>> \in DOMAIN mg_details
    /\ mg_details[<<1, 1>>] = SubscriptionType

(***************************************************************************)
(* Claims about the two filters taken together                             *)
(***************************************************************************)
\* apply_filters reaches its subnet loop for the network: the tests on
\* region, resource group and name patterns let it through
PassesNetworkTests(cfg, vnet) ==
    /\ RegionPasses(cfg, vnet)
    /\ ResourceGroupPasses(cfg, vnet)
    /\ NamePasses(cfg, vnet.name)

BothFiltersRan == fpc \in {"filtered", "refiltered"} /\ cfg_vnet_data # None

\* C40: for every filter configuration and every network, should_process_resource
\* keeps the network exactly when the tests of apply_filters on region,
\* resource group and name patterns keep it.
C40_SameNetworkDecision ==
    BothFiltersRan =>
        \A i \in DOMAIN discovered :
            (\E k \in DOMAIN cfg_vnet_data : cfg_vnet_data[k].id = discovered[i].id)
                <=> PassesNetworkTests(config, discovered[i])

\* the part of C40 that holds: the two agree when no name pattern is set
C40_SameDecisionWithoutPatterns ==
    (BothFiltersRan /\ config.resource_names.include_patterns = {}
                    /\ config.resource_names.exclude_patterns = {}) =>
        \A i \in DOMAIN discovered :
            (\E k \in DOMAIN cfg_vnet_data : cfg_vnet_data[k].id = discovered[i].id)
                <=> PassesNetworkTests(config, discovered[i])
====
